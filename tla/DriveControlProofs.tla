--------------------------- MODULE DriveControlProofs ---------------------------
(***************************************************************************)
(* Type correctness of DriveControl, that a speed is in force only for a    *)
(* path that is taken, and that a vehicle out of tolerance is tested before *)
(* it starts.                                                               *)
(* The last rests on where the tolerance is read: a doubt that is left is   *)
(* told either by OutTolerance, which holds the rows, or by a self test     *)
(* that is still to be passed, and between a turn and the next row, which   *)
(* is no turn, no pose is compared.  Last, that a count of jumps that goes  *)
(* round lets no more than one jump more be bridged.                        *)
(***************************************************************************)
EXTENDS DriveControl, TLAPS

\* What still tells of a doubt, at each part of a pass.
DoubtTold ==
    doubted =>
        /\ pc = "top" => SelfTestResult # 1 \/ OutTolerance
        /\ pc = "control" => OutTolerance
        /\ pc # "turned"
        /\ pc = "next" => OutTolerance /\ task_status \in Turns

\* A row is what ends, a turn with another look at the pose.
PartRow ==
    /\ pc = "turned" => task_status \in Turns
    /\ pc = "next" => task_status \in Rows

\* The status stays 9 only while a cleared path is passed over.
FetchesCleared == task_status = Fetching => cleared

IInv == TypeOK /\ SpeedOnPath /\ PartRow /\ FetchesCleared /\ DoubtTold

\* The types of what GetPosition sets.
PoseOK ==
    /\ lidardatalose \in 0..LoseLimit /\ lidarlossStop \in BOOLEAN
    /\ matchingcnt \in 0..(Modulus - 1) /\ MatchingLoss \in BOOLEAN
    /\ OutTolerance \in BOOLEAN /\ Stop_OutTo_flag \in BOOLEAN
    /\ bridged \in 0..(JumpLimit + 2)

LEMMA PoseType ==
    ASSUME TypeOK, NEW status, NEW stops, GetPosition(status, stops)
    PROVE  PoseOK' /\ (OutTolerance' => MatchingLoss')
<1> USE DEF TypeOK
<1>1. lidardatalose' \in 0..LoseLimit
  BY DriveControlAssumption DEF GetPosition, NextLose
<1>2. \A jump : NextJumps(jump) \in 0..(Modulus - 1)
  BY DriveControlAssumption DEF NextJumps
<1>3. matchingcnt' \in 0..(Modulus - 1)
  BY <1>2 DEF GetPosition
<1>4. MatchingLoss' \in BOOLEAN
  BY Zenon DEF GetPosition, LidarData_Deal
<1>5. /\ lidarlossStop' \in BOOLEAN /\ OutTolerance' \in BOOLEAN /\ Stop_OutTo_flag' \in BOOLEAN
      /\ OutTolerance' => MatchingLoss'
  BY Zenon DEF GetPosition
<1>6. bridged' \in 0..(JumpLimit + 2)
  BY DriveControlAssumption DEF GetPosition, NextBridged
<1> QED  BY <1>1, <1>3, <1>4, <1>5, <1>6 DEF PoseOK

\* A stop asks for no speed that was not asked for.
LEMMA StopType ==
    ASSUME TypeOK, Stop
    PROVE  Expect_speed' \in BOOLEAN /\ EPB_System_Status' \in BOOLEAN
           /\ (Expect_speed' => Expect_speed)
BY DEF TypeOK, Stop, EPBControl

\* A pose that is read where nothing else drives or stops the vehicle.
LEMMA OnlyPose ==
    ASSUME TypeOK, NEW status, OnlyGetPosition(status)
    PROVE  /\ PoseOK' /\ doubted' \in BOOLEAN
           /\ Expect_speed' \in BOOLEAN /\ EPB_System_Status' \in BOOLEAN
           /\ Expect_speed' => Expect_speed
           /\ doubted' => doubted \/ OutTolerance'
<1>1. GetPosition(status, FALSE) /\ doubted' = (doubted \/ OutTolerance')
      /\ (Stop \/ UNCHANGED <<Expect_speed, EPB_System_Status>>)
  BY DEF OnlyGetPosition
<1>2. doubted' \in BOOLEAN /\ (doubted' => doubted \/ OutTolerance')
  BY <1>1, Zenon DEF TypeOK
<1>3. PoseOK'
  BY <1>1, PoseType
<1> QED  BY <1>1, <1>2, <1>3, StopType DEF TypeOK

\* What a frame may do to the path: a path that has been cleared stays so.
LEMMA LoadsType ==
    ASSUME TypeOK, NEW switch \in BOOLEAN, Loads(switch)
    PROVE  /\ Task_Count' \in BOOLEAN /\ cleared' \in BOOLEAN
           /\ task_status # Idle /\ cleared => cleared'
<1>1. Task_Count' \in {Task_Count, TRUE} /\ cleared' = (task_status # Idle /\ (cleared \/ switch))
  BY DEF Loads
<1>2. Task_Count' \in BOOLEAN
  BY <1>1, Zenon DEF TypeOK
<1>3. cleared' \in BOOLEAN /\ (task_status # Idle /\ cleared => cleared')
  BY <1>1, Zenon
<1> QED  BY <1>2, <1>3

\* What comm_path_trans may change.
LEMMA PathType ==
    ASSUME TypeOK, comm_path_trans
    PROVE  /\ SelfTestResult' \in 0..2
           /\ Task_Count' \in BOOLEAN /\ cleared' \in BOOLEAN
           /\ task_status # Idle /\ cleared => cleared'
<1>1. PICK switch \in BOOLEAN :
        Loads(switch) /\ SelfTestResult' = IF switch THEN 0 ELSE SelfTestResult
  BY DEF comm_path_trans
<1>2. SelfTestResult' \in 0..2
  BY <1>1 DEF TypeOK
<1> QED  BY <1>1, <1>2, LoadsType

LEMMA Statuses ==
    /\ Idle \notin Rows /\ Stopping \notin Rows /\ Fetching \notin Rows
    /\ Idle # Stopping /\ Idle # Fetching /\ Stopping # Fetching
    /\ Turns \subseteq Rows
BY DEF Idle, Stopping, Fetching, Rows, Turns, Line, Turn, Reverse, ReverseTurn

\* What a row that drives keeps: it drives only with its poses in tolerance.
LEMMA RowDrives ==
    ASSUME IInv, RowPass
    PROVE  TypeOK' /\ SpeedOnPath' /\ PartRow' /\ FetchesCleared' /\ DoubtTold' /\ ~doubted
<1> USE DEF IInv
<1>1. /\ pc = "control" /\ OutTolerance = FALSE /\ task_status \in Rows
      /\ comm_path_trans /\ UNCHANGED outsideVars
  BY DEF RowPass, Runs, Controls, Held, TypeOK
<1>2. ~doubted
  BY <1>1 DEF DoubtTold
<1>3. SelfTestResult' \in 0..2 /\ Task_Count' \in BOOLEAN /\ cleared' \in BOOLEAN
  BY <1>1, PathType
<1>4. distance' \in Distances /\ posed' \in BOOLEAN
  BY <1>1 DEF outsideVars, TypeOK
<1>5. PICK lost \in BOOLEAN : Process(lost)
  BY DEF RowPass
<1> DEFINE refused == lidarlossStop' \/ MatchingLoss' \/ lost
<1>6. PoseOK' /\ (OutTolerance' => MatchingLoss') /\ doubted' = (doubted \/ OutTolerance')
  BY <1>5, PoseType DEF Process
<1>7. doubted' \in BOOLEAN /\ (doubted' => OutTolerance')
  BY <1>2, <1>6, Zenon DEF PoseOK, TypeOK
<1>8. task_status' = task_status /\ left' = left
  BY <1>5 DEF Process, DriveLine, DriveTurn, EndLineJudge, EndTurnJudge, rowVars
<1>9. SpeedOnPath' /\ PartRow' /\ FetchesCleared'
  <2>1. pc' = "turned" => task_status \in Turns
    BY <1>5 DEF Process, DriveLine, DriveTurn, EndLineJudge, EndTurnJudge
  <2> QED  BY <1>1, <1>8, <2>1, Statuses DEF SpeedOnPath, PartRow, FetchesCleared
<1>10. CASE refused /\ pc' = "top"
            /\ (Stop \/ UNCHANGED <<Expect_speed, EPB_System_Status>>)
            /\ UNCHANGED <<rowVars, FB_IS_PAUSED, AGV_getVehicle>>
  <2>1. Expect_speed' \in BOOLEAN /\ EPB_System_Status' \in BOOLEAN
    BY <1>10, StopType DEF TypeOK
  <2>2. TypeOK'
    BY <1>3, <1>4, <1>6, <1>7, <1>10, <2>1 DEF TypeOK, PoseOK, rowVars
  <2> QED  BY <1>2, <1>7, <1>9, <1>10, <2>2 DEF DoubtTold
<1>11. CASE ~refused /\ Drives /\ (DriveLine \/ DriveTurn)
  <2>1. OutTolerance' = FALSE /\ doubted' = FALSE
    BY <1>11, <1>6, <1>7, Zenon DEF PoseOK
  <2>2. /\ AGV_getVehicle' \in BOOLEAN /\ FB_IS_PAUSED' \in BOOLEAN
        /\ Expect_speed' \in BOOLEAN /\ EPB_System_Status' \in BOOLEAN
    BY <1>11 DEF Drives, Speed, Pause, TypeOK
  <2>3. /\ pc' \in {"top", "turned", "next"}
        /\ line_start' \in BOOLEAN /\ turn_start' \in BOOLEAN
    BY <1>11 DEF DriveLine, DriveTurn, EndLineJudge, EndTurnJudge, TypeOK
  <2>4. TypeOK'
    BY <1>3, <1>4, <1>6, <1>8, <2>1, <2>2, <2>3 DEF TypeOK, PoseOK
  <2> QED  BY <1>2, <1>9, <2>1, <2>4 DEF DoubtTold
<1>12. CASE ~refused /\ DriveLine /\ ~line_start
  <2>1. OutTolerance' = FALSE /\ doubted' = FALSE
    BY <1>12, <1>6, <1>7, Zenon DEF PoseOK
  <2>2. TypeOK'
    BY <1>3, <1>4, <1>6, <1>8, <1>12, <2>1 DEF TypeOK, PoseOK, DriveLine, EndLineJudge
  <2> QED  BY <1>2, <1>9, <2>1, <2>2 DEF DoubtTold
<1>13. CASE ~refused /\ pc' = "top" /\ UNCHANGED <<rowVars, FB_IS_PAUSED, driveVars>>
  <2>1. OutTolerance' = FALSE /\ doubted' = FALSE
    BY <1>13, <1>6, <1>7, Zenon DEF PoseOK
  <2>2. TypeOK'
    BY <1>3, <1>4, <1>6, <1>13, <2>1 DEF TypeOK, PoseOK, rowVars, driveVars
  <2> QED  BY <1>2, <1>9, <2>1, <2>2 DEF DoubtTold
<1> QED  BY <1>5, <1>10, <1>11, <1>12, <1>13 DEF Process, DriveLine, DriveTurn, EndLineJudge, EndTurnJudge

LEMMA Initial == Init => IInv
<1> SUFFICES ASSUME Init PROVE IInv
  OBVIOUS
<1>1. /\ lidardatalose \in 0..LoseLimit /\ matchingcnt \in 0..(Modulus - 1)
      /\ SelfTestResult \in 0..2 /\ bridged \in 0..(JumpLimit + 2)
      /\ left \in 0..MaxLeft
  BY DriveControlAssumption DEF Init
<1>2. TypeOK
  BY <1>1, Zenon DEF Init, TypeOK, Distances
<1>3. SpeedOnPath /\ PartRow /\ DoubtTold
  BY Zenon DEF Init, SpeedOnPath, PartRow, DoubtTold
<1>4. FetchesCleared
  BY Statuses DEF Init, FetchesCleared
<1> QED  BY <1>2, <1>3, <1>4 DEF IInv

\* A row that is passed over, or the end of the path: nothing drives.
LEMMA PassesOver ==
    ASSUME IInv, DataError \/ EndOfPath, pc' = "top", UNCHANGED outsideVars,
           SelfTestResult' \in 0..2, Task_Count' \in BOOLEAN, cleared' \in BOOLEAN,
           cleared => cleared'
    PROVE  /\ TypeOK' /\ SpeedOnPath' /\ PartRow' /\ FetchesCleared'
           /\ UNCHANGED poseVars /\ Expect_speed' = Expect_speed
<1> USE DEF IInv
<1>1. /\ task_status' \in {Fetching, Stopping} /\ (task_status' = Fetching => cleared)
      /\ UNCHANGED <<poseVars, line_start, turn_start, Expect_speed, EPB_System_Status>>
      /\ FB_IS_PAUSED' \in BOOLEAN /\ AGV_getVehicle' \in BOOLEAN
  <2>1. CASE DataError
    BY <2>1, Zenon DEF DataError, Speed, Pause
  <2>2. CASE EndOfPath
    <3>1. /\ task_status' = Stopping
          /\ UNCHANGED <<poseVars, line_start, turn_start, Expect_speed, EPB_System_Status>>
          /\ UNCHANGED <<FB_IS_PAUSED, AGV_getVehicle>>
      BY <2>2 DEF EndOfPath, driveVars
    <3>2. FB_IS_PAUSED' \in BOOLEAN /\ AGV_getVehicle' \in BOOLEAN
      BY <3>1, Zenon DEF TypeOK
    <3> QED  BY <3>1, <3>2, Statuses
  <2> QED  BY <2>1, <2>2
<1>2. left' \in 0..MaxLeft
  <2>1. left' \in 0..MaxLeft \/ (left > 0 /\ left' = left - 1)
    <3>1. CASE DataError /\ task_status = Fetching
      BY <3>1 DEF DataError
    <3>2. CASE DataError /\ task_status # Fetching
      BY <3>2 DEF DataError
    <3>3. CASE EndOfPath
      BY <3>3 DEF EndOfPath, TypeOK
    <3> QED  BY <3>1, <3>2, <3>3
  <2> QED  BY <2>1, DriveControlAssumption DEF TypeOK
<1>3. TypeOK'
  BY <1>1, <1>2 DEF TypeOK, poseVars, outsideVars
<1>4. SpeedOnPath' /\ FetchesCleared'
  BY <1>1, Statuses DEF SpeedOnPath, FetchesCleared
<1> QED  BY <1>1, <1>3, <1>4 DEF PartRow

LEMMA Inductive == IInv /\ [Next]_vars => IInv'
<1> SUFFICES ASSUME IInv, [Next]_vars PROVE IInv'
  OBVIOUS
<1> USE DEF IInv
<1>1. CASE Frame
  BY <1>1 DEF Frame, poseVars, rowVars, pathVars, modeVars, driveVars,
     TypeOK, SpeedOnPath, PartRow, FetchesCleared, DoubtTold
<1>2. CASE RemotePass
  <2>1. PoseOK' /\ doubted' \in BOOLEAN /\ Expect_speed' \in BOOLEAN
        /\ EPB_System_Status' \in BOOLEAN /\ (Expect_speed' => Expect_speed)
    BY <1>2, OnlyPose DEF RemotePass
  <2>2. /\ pc = "top" /\ pc' = "top" /\ task_status' = task_status
        /\ FB_IS_PAUSED' = FALSE /\ SelfTestResult' = 0 /\ AGV_getVehicle' \in BOOLEAN
        /\ UNCHANGED <<outsideVars, rowVars, pathVars>>
    BY <1>2 DEF RemotePass, Speed, rowVars
  <2>3. TypeOK'
    <3>1. SelfTestResult' \in 0..2
      BY <2>2
    <3>2. FB_IS_PAUSED' \in BOOLEAN
      BY <2>2, Zenon
    <3>3. UNCHANGED <<distance, posed, pc, task_status, line_start, turn_start, left,
                      Task_Count, cleared>>
      BY <2>2, Zenon DEF outsideVars, rowVars, pathVars
    <3> QED  BY <2>1, <2>2, <3>1, <3>2, <3>3 DEF TypeOK, PoseOK
  <2> QED  BY <2>1, <2>2, <2>3 DEF pathVars, SpeedOnPath, PartRow, FetchesCleared, DoubtTold
<1>3. CASE RevokePass
  <2>1. /\ pc = "top" /\ pc' = "top" /\ task_status' = Idle
        /\ SelfTestResult' = 0 /\ Task_Count' = FALSE /\ cleared' = FALSE /\ left' = 0
        /\ Expect_speed' = FALSE
        /\ UNCHANGED <<outsideVars, poseVars, line_start, turn_start, EPB_System_Status>>
        /\ FB_IS_PAUSED' \in BOOLEAN /\ AGV_getVehicle' \in BOOLEAN
    BY <1>3, Zenon DEF RevokePass, RevokeSpeed, Speed, Pause
  <2>2. SelfTestResult' \in 0..2 /\ left' \in 0..MaxLeft
    BY <2>1, DriveControlAssumption
  <2>3. TypeOK'
    BY <2>1, <2>2, Zenon DEF TypeOK, outsideVars, poseVars
  <2>4. SpeedOnPath' /\ PartRow'
    BY <2>1, Zenon DEF SpeedOnPath, PartRow
  <2>5. FetchesCleared' /\ DoubtTold'
    BY <2>1, Statuses DEF FetchesCleared, DoubtTold
  <2> QED  BY <2>3, <2>4, <2>5
<1>4. CASE AutomaticPass
  <2>1. Expect_speed' \in BOOLEAN /\ EPB_System_Status' \in BOOLEAN
        /\ (Expect_speed' => Expect_speed)
    BY <1>4 DEF AutomaticPass, EPBControl, TypeOK
  <2>2. /\ pc = "top" /\ pc' \in {"test", "control", "top"}
        /\ pc' = "control" => SelfTestResult = 1
        /\ pc' = "top" => SelfTestResult # 1
        /\ UNCHANGED <<outsideVars, poseVars, rowVars, SelfTestResult, pathVars>>
        /\ FB_IS_PAUSED' \in BOOLEAN /\ AGV_getVehicle' \in BOOLEAN
    BY <1>4 DEF AutomaticPass, Speed, Pause
  <2>3. TypeOK'
    BY <2>1, <2>2 DEF TypeOK, outsideVars, poseVars, rowVars, pathVars
  <2> QED  BY <2>1, <2>2, <2>3 DEF poseVars, rowVars, pathVars, SpeedOnPath, PartRow, FetchesCleared, DoubtTold
<1>5. CASE SelfTest
  <2>1. PoseOK' /\ GetPosition(task_status, FALSE)
    BY <1>5, PoseType DEF SelfTest
  <2>2. Expect_speed' \in BOOLEAN /\ EPB_System_Status' \in BOOLEAN
        /\ (Expect_speed' => Expect_speed)
    BY <1>5, StopType DEF SelfTest, TypeOK
  <2>3. doubted' \in BOOLEAN /\ (doubted' => SelfTestResult' # 1)
    BY <1>5, Zenon DEF SelfTest
  <2>4. /\ pc' = IF SelfTestResult' = 1 THEN "control" ELSE "top"
        /\ SelfTestResult' \in {0, 1, 2} /\ \E switch \in BOOLEAN : Loads(switch)
        /\ UNCHANGED <<outsideVars, rowVars, FB_IS_PAUSED, AGV_getVehicle>>
    BY <1>5, Zenon DEF SelfTest
  <2>6. SelfTestResult' \in 0..2
    BY <2>4
  <2>7. Task_Count' \in BOOLEAN /\ cleared' \in BOOLEAN
        /\ (task_status # Idle /\ cleared => cleared')
    BY <2>4, LoadsType
  <2>5. TypeOK'
    <3>1. UNCHANGED <<distance, posed, task_status, line_start, turn_start, left, FB_IS_PAUSED,
                      AGV_getVehicle>>
      BY <2>4, Zenon DEF outsideVars, rowVars
    <3>2. pc' \in {"control", "top"}
      BY <2>4
    <3> QED  BY <2>1, <2>2, <2>3, <2>6, <2>7, <3>1, <3>2 DEF TypeOK, PoseOK
  <2> QED  BY <2>2, <2>3, <2>4, <2>5, <2>7, Statuses DEF rowVars, SpeedOnPath, PartRow, FetchesCleared, DoubtTold
<1>6. CASE HoldPass
  <2>1. /\ pc = "control" /\ pc' = "top" /\ Expect_speed' = FALSE
        /\ EPB_System_Status' \in BOOLEAN /\ comm_path_trans
        /\ UNCHANGED <<outsideVars, poseVars, rowVars, FB_IS_PAUSED, AGV_getVehicle>>
    BY <1>6, Zenon DEF HoldPass, Controls
  <2>2. TypeOK'
    <3>1. SelfTestResult' \in 0..2 /\ Task_Count' \in BOOLEAN /\ cleared' \in BOOLEAN
      BY <2>1, PathType
    <3>2. Expect_speed' \in BOOLEAN
      BY <2>1, Zenon
    <3>3. UNCHANGED <<distance, posed, task_status, line_start, turn_start, left, FB_IS_PAUSED,
                      AGV_getVehicle, lidardatalose, lidarlossStop, matchingcnt, MatchingLoss,
                      OutTolerance, Stop_OutTo_flag, doubted, bridged>>
      BY <2>1, Zenon DEF outsideVars, poseVars, rowVars
    <3> QED  BY <2>1, <3>1, <3>2, <3>3 DEF TypeOK
  <2>3. FetchesCleared'
    BY <2>1, PathType, Statuses DEF rowVars, FetchesCleared
  <2> QED  BY <2>1, <2>2, <2>3, Zenon DEF poseVars, SpeedOnPath, PartRow, DoubtTold
<1>7. CASE GetTaskSystem
  <2>1. /\ pc = "control" /\ pc' = "top" /\ OutTolerance = FALSE /\ task_status = Idle
        /\ comm_path_trans
        /\ UNCHANGED <<outsideVars, poseVars, FB_IS_PAUSED, AGV_getVehicle>>
        /\ EPB_System_Status' \in BOOLEAN
    BY <1>7 DEF GetTaskSystem, Runs, Controls, Held, TypeOK
  <2>2. Expect_speed' = FALSE
    BY <2>1, <1>7, Statuses DEF GetTaskSystem, SpeedOnPath, TypeOK
  <2>3. /\ task_status' \in Rows \cup {Idle}
        /\ line_start' \in BOOLEAN /\ turn_start' \in BOOLEAN /\ left' = left
    BY <2>1, <1>7, DriveControlAssumption DEF GetTaskSystem, rowVars, TypeOK
  <2>4. TypeOK'
    BY <2>1, <2>2, <2>3, PathType, Zenon DEF TypeOK, outsideVars, poseVars
  <2> QED  BY <2>1, <2>2, <2>3, <2>4, Statuses DEF poseVars, SpeedOnPath, PartRow, FetchesCleared, DoubtTold, TypeOK
<1>8. CASE RowPass
  BY <1>8, RowDrives
<1>9. CASE LineRefused
  <2>1. /\ pc = "control" /\ pc' = "top" /\ Expect_speed' = FALSE /\ comm_path_trans
        /\ UNCHANGED <<outsideVars, poseVars, rowVars, FB_IS_PAUSED, AGV_getVehicle, EPB_System_Status>>
        /\ ~OutTolerance
    BY <1>9, Zenon DEF LineRefused, Runs, Controls, Held
  <2>2. TypeOK'
    <3>1. SelfTestResult' \in 0..2 /\ Task_Count' \in BOOLEAN /\ cleared' \in BOOLEAN
      BY <2>1, PathType
    <3>2. Expect_speed' \in BOOLEAN /\ EPB_System_Status' \in BOOLEAN
      BY <2>1, Zenon DEF TypeOK
    <3>3. UNCHANGED <<distance, posed, task_status, line_start, turn_start, left, FB_IS_PAUSED,
                      AGV_getVehicle, lidardatalose, lidarlossStop, matchingcnt, MatchingLoss,
                      OutTolerance, Stop_OutTo_flag, doubted, bridged>>
      BY <2>1, Zenon DEF outsideVars, poseVars, rowVars
    <3> QED  BY <2>1, <3>1, <3>2, <3>3 DEF TypeOK
  <2>3. FetchesCleared'
    BY <2>1, PathType, Statuses DEF rowVars, FetchesCleared
  <2> QED  BY <2>1, <2>2, <2>3, Zenon DEF poseVars, SpeedOnPath, PartRow, DoubtTold
<1>10. CASE StopTask
  <2>1. PoseOK'
    BY <1>10, PoseType DEF StopTask
  <2>2. doubted' \in BOOLEAN
    BY <1>10, Zenon DEF StopTask, TypeOK
  <2>3. TypeOK'
    <3>1. SelfTestResult' \in 0..2
      BY <1>10 DEF StopTask
    <3>2. FB_IS_PAUSED' \in BOOLEAN /\ EPB_System_Status' \in BOOLEAN
      BY <1>10, Zenon DEF StopTask, TypeOK
    <3>3. /\ UNCHANGED <<distance, posed, line_start, turn_start, left, AGV_getVehicle>>
          /\ Task_Count' = FALSE /\ cleared' = FALSE /\ Expect_speed' = FALSE /\ task_status' = Idle /\ pc' = "top"
      BY <1>10, Zenon DEF StopTask, outsideVars
    <3>4. Task_Count' \in BOOLEAN /\ cleared' \in BOOLEAN /\ Expect_speed' \in BOOLEAN
      BY <3>3, Zenon
    <3> QED  BY <2>1, <2>2, <3>1, <3>2, <3>3, <3>4 DEF TypeOK, PoseOK
  <2> QED  BY <1>10, <2>3, Statuses DEF StopTask, SpeedOnPath, PartRow, FetchesCleared, DoubtTold
<1>11. CASE TurnEnds
  <2>1. /\ PoseOK' /\ doubted' \in BOOLEAN /\ Expect_speed' \in BOOLEAN
        /\ EPB_System_Status' \in BOOLEAN /\ (Expect_speed' => Expect_speed)
        /\ doubted' => doubted \/ OutTolerance'
    BY <1>11, OnlyPose DEF TurnEnds
  <2>2. /\ pc = "turned" /\ pc' = "next" /\ turn_start' = FALSE
        /\ UNCHANGED <<outsideVars, modeVars, task_status, line_start, left, AGV_getVehicle>>
    BY <1>11 DEF TurnEnds
  <2>3. TypeOK'
    BY <2>1, <2>2 DEF TypeOK, PoseOK, outsideVars, modeVars, pathVars
  <2> QED  BY <2>1, <2>2, <2>3, Statuses DEF modeVars, pathVars, SpeedOnPath, PartRow, FetchesCleared, DoubtTold
<1>12. CASE RowEnds
  <2>1. /\ pc = "next" /\ pc' = "top" /\ task_status \in Rows
        /\ UNCHANGED <<outsideVars, SelfTestResult, pathVars>>
    BY <1>12 DEF RowEnds, PartRow
  <2>2. CASE NextRow
    <3>1. PICK row \in Follows[task_status] \cap Rows : TakeRow(row)
      BY <2>2 DEF NextRow
    <3>2. UNCHANGED <<left, FB_IS_PAUSED, AGV_getVehicle>> /\ task_status' = row
      BY <2>2, <3>1 DEF NextRow, TakeRow
    <3>3. CASE row \in Turns
      <4>1. /\ PoseOK' /\ doubted' \in BOOLEAN /\ Expect_speed' \in BOOLEAN
            /\ EPB_System_Status' \in BOOLEAN
            /\ doubted' => doubted \/ OutTolerance'
        BY <3>1, <3>3, OnlyPose DEF TakeRow
      <4>2. ~doubted
        BY <2>1, <3>1, <3>3, DriveControlAssumption DEF DoubtTold
      <4>3. TypeOK'
        BY <2>1, <3>1, <3>2, <3>3, <4>1 DEF TakeRow, TypeOK, PoseOK, outsideVars, pathVars
      <4> QED  BY <2>1, <3>1, <3>2, <4>1, <4>2, <4>3, Statuses
               DEF SpeedOnPath, PartRow, FetchesCleared, DoubtTold
    <3>4. CASE row \notin Turns
      <4>1. TypeOK'
        BY <2>1, <3>1, <3>2, <3>4 DEF TakeRow, poseVars, TypeOK, outsideVars, pathVars
      <4>2. DoubtTold'
        BY <2>1, <3>1, <3>4 DEF TakeRow, poseVars, DoubtTold
      <4> QED  BY <2>1, <3>1, <3>2, <4>1, <4>2, Statuses DEF SpeedOnPath, PartRow, FetchesCleared
    <3> QED  BY <3>3, <3>4
  <2>3. CASE DataError \/ EndOfPath
    <3>1. /\ TypeOK' /\ SpeedOnPath' /\ PartRow' /\ FetchesCleared'
          /\ UNCHANGED poseVars
      BY <2>1, <2>3, PassesOver DEF pathVars, TypeOK
    <3> QED  BY <2>1, <3>1 DEF poseVars, DoubtTold
  <2> QED  BY <1>12, <2>2, <2>3 DEF RowEnds, GetTaskParameter
<1>13. CASE FetchPass
  <2>1. /\ pc = "control" /\ pc' = "top" /\ OutTolerance = FALSE /\ task_status = Fetching
        /\ cleared /\ comm_path_trans /\ UNCHANGED outsideVars
        /\ DataError \/ EndOfPath
    BY <1>13 DEF FetchPass, Runs, Controls, Held, GetTaskParameter, NextRow, FetchesCleared, TypeOK
  <2>2. /\ SelfTestResult' \in 0..2 /\ Task_Count' \in BOOLEAN /\ cleared' \in BOOLEAN
        /\ cleared => cleared'
    BY <2>1, PathType, Statuses
  <2>3. /\ TypeOK' /\ SpeedOnPath' /\ PartRow' /\ FetchesCleared'
        /\ UNCHANGED poseVars
    BY <2>1, <2>2, PassesOver
  <2> QED  BY <2>1, <2>3 DEF poseVars, DoubtTold
<1>14. CASE NoModePass
  <2>1. /\ UNCHANGED <<pc, outsideVars, poseVars, rowVars, SelfTestResult, pathVars,
                       Expect_speed, EPB_System_Status>>
        /\ FB_IS_PAUSED' \in BOOLEAN /\ AGV_getVehicle' \in BOOLEAN
    BY <1>14 DEF NoModePass, Speed, Pause
  <2> QED  BY <2>1 DEF outsideVars, poseVars, rowVars, pathVars,
           TypeOK, SpeedOnPath, PartRow, FetchesCleared, DoubtTold
<1>15. CASE UNCHANGED vars
  BY <1>15 DEF vars, outsideVars, poseVars, rowVars, pathVars, modeVars, driveVars,
     TypeOK, SpeedOnPath, PartRow, FetchesCleared, DoubtTold
<1> QED  BY <1>1, <1>2, <1>3, <1>4, <1>5, <1>6, <1>7, <1>8, <1>9, <1>10, <1>11, <1>12, <1>13,
            <1>14, <1>15 DEF Next, Loop

\* Every variable keeps its type, with any limits and any paths.
THEOREM Typed == Spec => []TypeOK
<1>1. IInv => TypeOK
  BY DEF IInv
<1> QED  BY <1>1, Initial, Inductive, PTL DEF Spec

\* A speed is in force only for a path that is taken: on its rows, at its end, or
\* while the rows of it that have been cleared are passed over.
THEOREM SpeedForPath == Spec => []SpeedOnPath
<1>1. IInv => SpeedOnPath
  BY DEF IInv
<1> QED  BY <1>1, Initial, Inductive, PTL DEF Spec

\* Only a row asks for a speed that was not asked for, and it is not in doubt.
LEMMA StartStep ==
    ASSUME IInv, [Next]_vars, ~Expect_speed, Expect_speed'
    PROVE  ~doubted
<1> USE DEF IInv
<1>1. CASE RowPass
  BY <1>1, RowDrives
<1>2. CASE RemotePass \/ TurnEnds
  BY <1>2, OnlyPose DEF RemotePass, TurnEnds
<1>3. CASE SelfTest
  BY <1>3, StopType DEF SelfTest
<1>4. CASE RowEnds \/ FetchPass
  <2>1. NextRow \/ DataError \/ EndOfPath
    BY <1>4 DEF RowEnds, FetchPass, GetTaskParameter
  <2> QED  BY <2>1, OnlyPose DEF NextRow, DataError, EndOfPath, driveVars, TakeRow
<1>5. CASE Frame \/ RevokePass \/ NoModePass \/ AutomaticPass \/ HoldPass \/ GetTaskSystem
           \/ LineRefused \/ StopTask \/ UNCHANGED vars
  BY <1>5 DEF Frame, RevokePass, RevokeSpeed, NoModePass, AutomaticPass, EPBControl, HoldPass,
     GetTaskSystem, LineRefused, StopTask, vars, driveVars
<1> QED  BY <1>1, <1>2, <1>3, <1>4, <1>5 DEF Next, Loop

\* A vehicle whose pose was out of tolerance does not start before a self test
\* has been passed.
THEOREM TestedToStart == Spec => RetestedToStart
<1>1. Spec => []IInv
  BY Initial, Inductive, PTL DEF Spec
<1>2. IInv /\ [Next]_vars => [~Expect_speed /\ Expect_speed' => ~doubted]_vars
  BY StartStep
<1> QED  BY <1>1, <1>2, PTL DEF Spec, RetestedToStart

-----------------------------------------------------------------------------
(* The jumps that are bridged *)

\* As long as jumps are bridged their count tells how many, but for one that is
\* bridged when the count goes round; past the limit none is.
JumpsCounted ==
    bridged <= IF matchingcnt <= JumpLimit THEN matchingcnt + 1 ELSE 0

\* The count goes round.
LEMMA CountGoesRound ==
    ASSUME NEW jumps \in 0..(Modulus - 1)
    PROVE  (jumps + 1) % Modulus = IF jumps + 1 = Modulus THEN 0 ELSE jumps + 1
<1>1. Modulus \in Nat /\ Modulus > 0 /\ jumps \in Nat
  BY DriveControlAssumption
<1>2. \A n \in Nat : n < Modulus => n % Modulus = n
  BY <1>1
<1>3. Modulus % Modulus = 0
  BY <1>1
<1>4. CASE jumps + 1 = Modulus
  BY <1>3, <1>4
<1>5. CASE jumps + 1 # Modulus
  BY <1>1, <1>2, <1>5
<1> QED  BY <1>4, <1>5

\* A pose that is read counts, or is not compared.
LEMMA PoseCounts ==
    ASSUME TypeOK, JumpsCounted, NEW status, NEW stops, GetPosition(status, stops)
    PROVE  JumpsCounted'
<1> DEFINE compared == ~Stop_OutTo_flag /\ AGV_getVehicle
           jump == compared /\ Jump(status, NextLose(status))
<1>1. /\ matchingcnt' = IF compared THEN NextJumps(jump) ELSE matchingcnt
      /\ bridged' = IF compared THEN NextBridged(jump) ELSE bridged
      /\ compared => MatchingLoss' = (jump /\ (LidarData_Deal \/ TooMany(matchingcnt')))
      /\ OutTolerance' = (jump /\ MatchingLoss')
  BY Zenon DEF GetPosition
<1>2. /\ JumpLimit \in Nat /\ Modulus \in Nat /\ Modulus > JumpLimit + 1
      /\ matchingcnt \in 0..(Modulus - 1) /\ bridged \in 0..(JumpLimit + 2)
  BY DriveControlAssumption DEF TypeOK
<1>3. CASE ~compared
  BY <1>1, <1>3 DEF JumpsCounted
<1>4. CASE compared /\ ~jump
  <2>1. matchingcnt' = 0 /\ bridged' = 0
    BY <1>1, <1>4 DEF NextJumps, NextBridged
  <2> QED  BY <1>2, <2>1 DEF JumpsCounted
<1>5. CASE compared /\ jump /\ OutTolerance'
  <2>1. bridged' = 0 /\ matchingcnt' = (matchingcnt + 1) % Modulus
    BY <1>1, <1>5 DEF NextJumps, NextBridged
  <2>2. matchingcnt' \in Nat
    BY <1>2, <2>1
  <2> QED  BY <1>2, <2>1, <2>2 DEF JumpsCounted
<1>6. CASE compared /\ jump /\ ~OutTolerance'
  <2>1. /\ matchingcnt' = (matchingcnt + 1) % Modulus /\ matchingcnt' <= JumpLimit
        /\ bridged' = IF bridged < JumpLimit + 2 THEN bridged + 1 ELSE bridged
    <3>1. ~TooMany(matchingcnt')
      BY <1>1, <1>6, Zenon
    <3>2. matchingcnt' = (matchingcnt + 1) % Modulus
      BY <1>1, <1>6 DEF NextJumps
    <3>3. matchingcnt' \in Nat
      BY <1>2, <3>2
    <3>4. bridged' = NextBridged(jump)
      BY <1>1, <1>6, Zenon
    <3> QED  BY <1>2, <1>6, <3>1, <3>2, <3>3, <3>4 DEF TooMany, NextBridged
  <2>2. matchingcnt' = IF matchingcnt + 1 = Modulus THEN 0 ELSE matchingcnt + 1
    BY <1>2, <2>1, CountGoesRound
  \* The count has gone round: past the limit none was bridged.
  <2>3. CASE matchingcnt + 1 = Modulus
    <3>1. bridged = 0
      BY <1>2, <2>3 DEF JumpsCounted
    <3> QED  BY <1>2, <2>1, <2>2, <2>3, <3>1 DEF JumpsCounted
  <2>4. CASE matchingcnt + 1 # Modulus
    <3>1. bridged <= matchingcnt + 1
      BY <1>2, <2>1, <2>2, <2>4 DEF JumpsCounted
    <3> QED  BY <1>2, <2>1, <2>2, <2>4, <3>1 DEF JumpsCounted
  <2> QED  BY <2>3, <2>4
<1> QED  BY <1>3, <1>4, <1>5, <1>6

\* Every step reads a pose or leaves the counts alone.
LEMMA StepCounts ==
    ASSUME [Next]_vars
    PROVE  \/ UNCHANGED <<matchingcnt, bridged>>
           \/ \E status, stops : GetPosition(status, stops)
<1>1. CASE RemotePass \/ SelfTest \/ StopTask \/ TurnEnds
  BY <1>1 DEF RemotePass, SelfTest, StopTask, TurnEnds, OnlyGetPosition
<1>2. CASE RowPass
  BY <1>2 DEF RowPass, Process
<1>3. CASE RowEnds \/ FetchPass
  BY <1>3 DEF RowEnds, FetchPass, GetTaskParameter, NextRow, DataError, EndOfPath, TakeRow,
     OnlyGetPosition, poseVars
<1>4. CASE Frame \/ RevokePass \/ NoModePass \/ AutomaticPass \/ HoldPass \/ GetTaskSystem
           \/ LineRefused \/ UNCHANGED vars
  BY <1>4 DEF Frame, RevokePass, NoModePass, AutomaticPass, HoldPass, GetTaskSystem, LineRefused,
     vars, poseVars
<1> QED  BY <1>1, <1>2, <1>3, <1>4 DEF Next, Loop

\* No more than JumpLimit + 1 jumps in a row are bridged before the vehicle is
\* stopped, however often the count goes round.
THEOREM JumpsBridgedAlways == Spec => []JumpsBridged
<1>1. Init => JumpsCounted
  BY DriveControlAssumption DEF Init, JumpsCounted
<1>2. TypeOK /\ JumpsCounted /\ [Next]_vars => JumpsCounted'
  <2> SUFFICES ASSUME TypeOK, JumpsCounted, [Next]_vars PROVE JumpsCounted'
    OBVIOUS
  <2>1. CASE UNCHANGED <<matchingcnt, bridged>>
    BY <2>1 DEF JumpsCounted
  <2> QED  BY <2>1, StepCounts, PoseCounts
<1>3. TypeOK /\ JumpsCounted => JumpsBridged
  BY DriveControlAssumption DEF TypeOK, JumpsCounted, JumpsBridged
<1> QED  BY <1>1, <1>2, <1>3, Typed, PTL DEF Spec

================================================================================
