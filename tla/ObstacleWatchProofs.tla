-------------------------- MODULE ObstacleWatchProofs --------------------------
(***************************************************************************)
(* Type correctness of ObstacleWatch, and two facts of its passes: the      *)
(* vehicle never starts while the bus is silent, and an obstacle is lifted  *)
(* only by a look at the side it stands on.  Both rest on what the          *)
(* interrupts and the main loop keep in step: the counter of the ticks with *)
(* the silence, until it goes round, and the switch of the lidar with the   *)
(* row.                                                                     *)
(***************************************************************************)
EXTENDS ObstacleWatch, TLAPS

\* The counter counts the ticks of a silence, until it goes round.
FlagCounts == silence < Modulus => Lidarflag = silence

\* The lidar watches the side of the row.
WatchesRow == task_status \in Rows => LidarTestSwitch = Switch(task_status)

IInv == TypeOK /\ FlagCounts /\ WatchesRow

\* A frame mixed of two frames is a frame.
LEMMA TakenType ==
    ASSUME rp_buf \in Frames, Lidarcanbuf \in Frames, NEW k \in 0..3
    PROVE  /\ Taken(k) \in Frames
           /\ \A s \in Sides : Taken(k).dist[s] \in {rp_buf.dist[s], Lidarcanbuf.dist[s]}
BY DEF Taken, Frames, Sides

\* What a row watches.
LEMMA SwitchRow ==
    ASSUME NEW row \in Rows
    PROVE  /\ Switch(row) \in {3, 4, 15}
           /\ Towards(row) \in Sides
           /\ \A dist \in [Sides -> Distances] :
                ~Obstacle(Switch(row), dist) => ~Near(row, dist)
<1>1. row \in {1, 2, 3, 5}
  BY DEF Rows, Line, Turn, Reverse, ReverseTurn
<1>2. Distances \subseteq Int
  BY ObstacleWatchAssumption
<1>3. Switch(row) = IF row = 1 THEN 3 ELSE IF row = 2 THEN 4 ELSE 15
  BY <1>1 DEF Switch, Line, Turn
<1>4. Towards(row) = IF row \in {1, 2} THEN "front" ELSE "rear"
  BY DEF Towards, Line, Turn
<1>5. ASSUME NEW dist \in [Sides -> Distances], ~Obstacle(Switch(row), dist)
      PROVE  ~Near(row, dist)
  <2>1. dist["front"] \in Int /\ dist["rear"] \in Int
    BY <1>2 DEF Sides
  <2>2. CASE row = 1
    BY <2>1, <2>2, <1>3, <1>4, <1>5 DEF Obstacle, Near
  <2>3. CASE row = 2
    BY <2>1, <2>3, <1>3, <1>4, <1>5 DEF Obstacle, Near
  <2>4. CASE row \in {3, 5}
    BY <2>1, <2>4, <1>3, <1>4, <1>5 DEF Obstacle, Near
  <2> QED  BY <1>1, <2>2, <2>3, <2>4
<1> QED  BY <1>3, <1>4, <1>5 DEF Sides

\* What a read of the lidar does, disturbed or not.
LEMMA ReadStep ==
    ASSUME IInv, LidarReadAlone \/ LidarReadDisturbed
    PROVE  /\ Lidarcanbuf' \in {Lidarcanbuf, rp_buf}
           /\ Lidarflag' \in 0..(Modulus - 1) /\ silence' \in 0..Modulus
           /\ FlagCounts'
           /\ Lidar_Status' \in BOOLEAN /\ lidarLoss' \in BOOLEAN /\ LidarObstacle' \in BOOLEAN
           /\ ~lidarLoss' => Lidarflag' <= LossTicks
           /\ LidarObstacle /\ ~LidarObstacle' /\ task_status \in Rows
                => \E frame \in {Lidarcanbuf, Lidarcanbuf'} : ~Near(task_status, frame.dist)
<1> USE DEF IInv, TypeOK
<1>1. Lidarcanbuf' \in {Lidarcanbuf, rp_buf}
      /\ Lidarflag' \in 0..(Modulus - 1) /\ silence' \in 0..Modulus /\ FlagCounts'
  <2>1. CASE LidarReadAlone
    BY <2>1 DEF LidarReadAlone, canVars, FlagCounts
  <2>2. CASE LidarReadDisturbed
    BY <2>2, ObstacleWatchAssumption DEF LidarReadDisturbed, Received, FlagCounts
  <2> QED  BY <2>1, <2>2
<1>2. lidarLoss' = Lost(Lidar_Status', Lidarflag')
  BY DEF LidarReadAlone, LidarReadDisturbed
<1>3. PICK k \in 0..3 :
        /\ ReadSound(k) \/ UNCHANGED <<Lidar_Status, LidarObstacle>>
        /\ k = 3 \/ Lidarcanbuf' = rp_buf
  BY DEF LidarReadAlone, LidarReadDisturbed, Received
<1>4. Lidar_Status' \in BOOLEAN /\ LidarObstacle' \in BOOLEAN
  BY <1>3, TakenType, Zenon DEF ReadSound, Obstacle, Frames
<1>5. lidarLoss' \in BOOLEAN /\ (~lidarLoss' => Lidarflag' <= LossTicks)
  <2>1. lidarLoss' = (Lidar_Status' \/ Lidarflag' > LossTicks)
    BY <1>2 DEF Lost
  <2>2. lidarLoss' \in BOOLEAN
    BY <2>1, Zenon
  <2>3. ~lidarLoss' => ~(Lidarflag' > LossTicks)
    BY <2>1, Zenon
  <2> QED  BY <2>2, <2>3, <1>1, ObstacleWatchAssumption
<1>6. ASSUME LidarObstacle, ~LidarObstacle', task_status \in Rows
      PROVE  \E frame \in {Lidarcanbuf, Lidarcanbuf'} : ~Near(task_status, frame.dist)
  <2> DEFINE dist == Taken(k).dist
  <2>1. LidarTestSwitch = Switch(task_status) /\ LidarTestSwitch # 1
    BY <1>6, SwitchRow DEF WatchesRow
  <2>2. ~Obstacle(Switch(task_status), dist)
    BY <1>3, <1>6, <2>1 DEF ReadSound
  <2>3. dist \in [Sides -> Distances] /\ Towards(task_status) \in Sides
    BY <1>6, TakenType, SwitchRow DEF Frames
  <2>4. ~Near(task_status, dist)
    BY <1>6, <2>2, <2>3, SwitchRow
  <2>5. dist[Towards(task_status)]
            \in {rp_buf.dist[Towards(task_status)], Lidarcanbuf.dist[Towards(task_status)]}
    BY <2>3, TakenType
  <2>6. CASE Lidarcanbuf' = rp_buf
    BY <2>4, <2>5, <2>6 DEF Near
  <2>7. CASE k = 3
    <3>1. dist[Towards(task_status)] = Lidarcanbuf.dist[Towards(task_status)]
      BY <2>7, <2>3 DEF Taken, Sides
    <3> QED  BY <3>1, <2>4 DEF Near
  <2> QED  BY <1>3, <2>6, <2>7
<1> QED  BY <1>1, <1>4, <1>5, <1>6

\* No other status is that of a row.
LEMMA OffRows == Idle \notin Rows /\ Stopping \notin Rows /\ Fetching \notin Rows
BY DEF Idle, Stopping, Fetching, Rows, Line, Turn, Reverse, ReverseTurn

\* A row that is taken, the end of the path or a cleared row keeps the types, and
\* the switch with the row.
LEMMA TakeRow ==
    ASSUME TypeOK, NEW next \in Rows \cup {Stopping, Fetching}, GetTaskParameter(next)
    PROVE  /\ task_status' \in Rows \cup {Idle, Stopping, Fetching}
           /\ LidarTestSwitch' \in {1, 3, 4, 15}
           /\ line_start' \in BOOLEAN
           /\ WatchesRow'
<1>1. task_status' = next /\ line_start' = FALSE
  BY DEF GetTaskParameter
<1>2. CASE next \notin Rows
  <2>1. LidarTestSwitch' = LidarTestSwitch
    BY <1>2 DEF GetTaskParameter
  <2> QED  BY <1>1, <1>2, <2>1 DEF TypeOK, WatchesRow
<1>3. CASE next \in Rows
  BY <1>1, <1>3, SwitchRow DEF GetTaskParameter, WatchesRow, Switch, Line, Turn
<1> QED  BY <1>2, <1>3

\* What a process of a row does.
LEMMA ProcessStep ==
    ASSUME IInv, task_status \in Rows, Process
    PROVE  /\ task_status' \in Rows \cup {Idle, Stopping, Fetching}
           /\ LidarTestSwitch' \in {1, 3, 4, 15}
           /\ line_start' \in BOOLEAN
           /\ drive' \in Sides \cup {NoSide}
           /\ WatchesRow'
           /\ drive' \notin {NoSide, drive} => ~lidarLoss'
<1> DEFINE Keeps == /\ task_status' \in Rows \cup {Idle, Stopping, Fetching}
                    /\ LidarTestSwitch' \in {1, 3, 4, 15}
                    /\ line_start' \in BOOLEAN
                    /\ WatchesRow'
<1>1. UNCHANGED rowVars => Keeps
  BY DEF rowVars, IInv, TypeOK, WatchesRow, Switch
<1>2. CASE drive' \in {NoSide, drive} /\ UNCHANGED rowVars
  BY <1>1, <1>2 DEF IInv, TypeOK
<1>3. CASE ~lidarLoss' /\ Drive
  <2>1. drive' \in Sides \cup {NoSide}
    BY <1>3, SwitchRow DEF Drive, IInv, TypeOK
  <2>2. Keeps
    <3>1. CASE line_start' = TRUE /\ UNCHANGED <<task_status, LidarTestSwitch>>
      BY <3>1 DEF IInv, TypeOK, WatchesRow, Switch
    <3>2. CASE \E next \in Nexts(task_status) : GetTaskParameter(next)
      <4>1. PICK next \in Nexts(task_status) : GetTaskParameter(next)
        BY <3>2
      <4>2. next \in Rows \cup {Stopping, Fetching}
        BY ObstacleWatchAssumption DEF Nexts
      <4> QED  BY <4>1, <4>2, TakeRow DEF IInv
    <3> QED  BY <1>1, <1>3, <3>1, <3>2 DEF Drive
  <2> QED  BY <1>3, <2>1, <2>2
<1> QED  BY <1>2, <1>3 DEF Process, Refuses

\* The invariant, and what a step does to the drive and to an obstacle.
LEMMA Inductive == IInv /\ [Next]_vars => IInv'
<1> SUFFICES ASSUME IInv, [Next]_vars PROVE IInv'
  OBVIOUS
<1> USE ObstacleWatchAssumption DEF IInv, FlagCounts, WatchesRow, TypeOK, Switch
<1>1. ASSUME NEW s \in Sides, NEW d \in Distances, scanCallback(s, d) PROVE IInv'
  BY <1>1 DEF scanCallback, canVars, lidarVars, rowVars
<1>2. CASE timerCallback
  <2>1. rp_buf' \in Frames
    BY <1>2 DEF timerCallback, Frames, rp_errorFlag
  <2> QED  BY <1>2, <2>1 DEF timerCallback, canVars, lidarVars, rowVars
<1>3. CASE RestartBridge
  BY <1>3 DEF RestartBridge, canVars, lidarVars, rowVars
<1>4. CASE RestartCan
  BY <1>4 DEF RestartCan, NoFrame, Frames, bridgeVars, canVars, lidarVars, rowVars
<1>5. CASE CAN2_RX_IRQHandler
  BY <1>5 DEF CAN2_RX_IRQHandler, Received, bridgeVars, lidarVars, rowVars
<1>6. CASE TIM2_IRQHandler
  <2>1. Lidarflag' \in 0..(Modulus - 1) /\ silence' \in 0..Modulus /\ FlagCounts'
    <3>1. CASE silence < Modulus - 1
      BY <1>6, <3>1 DEF TIM2_IRQHandler, NextFlag
    <3>2. CASE silence >= Modulus - 1
      BY <1>6, <3>2 DEF TIM2_IRQHandler, NextFlag
    <3> QED  BY <3>1, <3>2
  <2> QED  BY <1>6, <2>1 DEF TIM2_IRQHandler, bridgeVars, lidarVars, rowVars
<1>7. CASE GetTaskSystem
  <2>1. CASE UNCHANGED rowVars
    BY <1>7, <2>1 DEF GetTaskSystem, bridgeVars, canVars, lidarVars, rowVars
  <2>2. CASE \E row \in First : GetTaskParameter(row)
    <3>1. PICK row \in Rows : GetTaskParameter(row)
      BY <2>2
    <3> QED  BY <1>7, <3>1, TakeRow DEF GetTaskSystem, bridgeVars, canVars, lidarVars
  <2> QED  BY <1>7, <2>1, <2>2 DEF GetTaskSystem
<1>8. CASE RowPass(LidarReadAlone) \/ RowPass(LidarReadDisturbed)
  <2>1. /\ LidarReadAlone \/ LidarReadDisturbed
        /\ Process /\ task_status \in Rows
        /\ UNCHANGED <<bridgeVars, rp_buf>>
    BY <1>8 DEF RowPass
  <2> QED  BY <2>1, ReadStep, ProcessStep DEF bridgeVars
<1>9. CASE HoldPass(LidarReadAlone) \/ HoldPass(LidarReadDisturbed)
  <2>1. /\ drive' = NoSide /\ UNCHANGED <<bridgeVars, rp_buf, rowVars>>
        /\ (LidarReadAlone \/ LidarReadDisturbed) \/ UNCHANGED <<canVars, lidarVars>>
    BY <1>9 DEF HoldPass
  <2>2. CASE LidarReadAlone \/ LidarReadDisturbed
    BY <2>1, <2>2, ReadStep DEF bridgeVars, rowVars
  <2>3. CASE UNCHANGED <<canVars, lidarVars>>
    BY <2>1, <2>3 DEF bridgeVars, rowVars, canVars, lidarVars
  <2> QED  BY <2>1, <2>2, <2>3
<1>10. CASE StopTask \/ RevokeControl
  BY <1>10, OffRows DEF StopTask, RevokeControl, bridgeVars, canVars, lidarVars
<1>11. CASE FetchPass
  <2>1. PICK next \in {Stopping, Fetching} : GetTaskParameter(next)
    BY <1>11 DEF FetchPass
  <2> QED  BY <1>11, <2>1, TakeRow DEF FetchPass, bridgeVars, canVars, lidarVars
<1>12. CASE SkipPass
  BY <1>12 DEF SkipPass, bridgeVars, canVars, lidarVars, rowVars
<1>13. CASE UNCHANGED vars
  BY <1>13 DEF vars, bridgeVars, canVars, lidarVars, rowVars
<1> QED
  BY <1>1, <1>2, <1>3, <1>4, <1>5, <1>6, <1>7, <1>8, <1>9, <1>10, <1>11, <1>12, <1>13
  DEF Next, Pass

LEMMA Initial == Init => IInv
<1> SUFFICES ASSUME Init PROVE IInv
  OBVIOUS
<1>1. Idle \notin Rows
  BY OffRows
<1>2. NoFrame \in Frames
  BY ObstacleWatchAssumption DEF NoFrame, Frames
<1>3. /\ minDistance \in [Sides -> Distances]
      /\ age \in [Sides -> 0..Timeout]
  BY ObstacleWatchAssumption DEF Init
<1>4. Lidarflag \in 0..(Modulus - 1) /\ silence \in 0..Modulus
  BY ObstacleWatchAssumption DEF Init
<1>5. TypeOK
  BY <1>2, <1>3, <1>4 DEF Init, TypeOK
<1> QED  BY <1>1, <1>5 DEF Init, IInv, FlagCounts, WatchesRow

\* Every reachable state is well typed.
THEOREM Typed == Spec => []TypeOK
<1>1. Spec => []IInv
  BY Initial, Inductive, PTL DEF Spec
<1> QED  BY <1>1, PTL DEF IInv

\* Only a pass on a row starts the vehicle, and it has seen no lidar lost.
LEMMA StartStep ==
    ASSUME IInv, [Next]_vars, drive' \notin {NoSide, drive}
    PROVE  silence' \notin (LossTicks + 1)..(Modulus - 1)
<1>1. RowPass(LidarReadAlone) \/ RowPass(LidarReadDisturbed)
  BY DEF Next, Pass, scanCallback, timerCallback, RestartBridge, RestartCan,
     CAN2_RX_IRQHandler, TIM2_IRQHandler, GetTaskSystem, FetchPass, HoldPass, StopTask, SkipPass,
     RevokeControl, vars
<1>2. (LidarReadAlone \/ LidarReadDisturbed) /\ Process /\ task_status \in Rows
  BY <1>1 DEF RowPass
<1>3. Lidarflag' <= LossTicks /\ FlagCounts' /\ silence' \in 0..Modulus
      /\ Lidarflag' \in 0..(Modulus - 1)
  BY <1>2, ProcessStep, ReadStep
<1> QED  BY <1>3, ObstacleWatchAssumption DEF FlagCounts

\* The vehicle never starts on a silent bus, unless the counter has gone round.
THEOREM StartsHeard == Spec => NoStartInSilence
<1>1. Spec => []IInv
  BY Initial, Inductive, PTL DEF Spec
<1>2. IInv /\ [Next]_vars
        => [drive' \notin {NoSide, drive} => silence' \notin (LossTicks + 1)..(Modulus - 1)]_vars
  BY StartStep
<1> QED  BY <1>1, <1>2, PTL DEF Spec, NoStartInSilence

\* Only a pass that holds the vehicle lifts an obstacle, and it has looked.
LEMMA LiftStep ==
    ASSUME IInv, [Next]_vars, LidarObstacle, ~LidarObstacle', task_status \in Rows
    PROVE  \E frame \in {Lidarcanbuf, Lidarcanbuf'} : ~Near(task_status, frame.dist)
<1>1. HoldPass(LidarReadAlone) \/ HoldPass(LidarReadDisturbed)
  BY DEF Next, Pass, scanCallback, timerCallback, RestartBridge, RestartCan,
     CAN2_RX_IRQHandler, TIM2_IRQHandler, GetTaskSystem, RowPass, FetchPass, StopTask, SkipPass,
     RevokeControl, vars, lidarVars
<1>2. LidarReadAlone \/ LidarReadDisturbed
  BY <1>1 DEF HoldPass
<1> QED  BY <1>2, ReadStep

\* An obstacle on a row is lifted only by a look at the side it drives to.
THEOREM LiftedByLook == Spec => ObstacleLifted
<1>1. Spec => []IInv
  BY Initial, Inductive, PTL DEF Spec
<1>2. IInv /\ [Next]_vars
        => [LidarObstacle /\ ~LidarObstacle' /\ task_status \in Rows
              => \E frame \in {Lidarcanbuf, Lidarcanbuf'} : ~Near(task_status, frame.dist)]_vars
  BY LiftStep
<1> QED  BY <1>1, <1>2, PTL DEF Spec, ObstacleLifted

================================================================================
