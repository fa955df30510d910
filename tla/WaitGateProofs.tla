---------------------------- MODULE WaitGateProofs ----------------------------
(***************************************************************************)
(* Proofs about WaitGate, for every set of points and places.              *)
(***************************************************************************)
EXTENDS WaitGate, TLAPS

\* What a lane event sets keeps its type, whatever became of the attempts.
LEMMA LaneEventType ==
    ASSUME TypeOK, NEW event \in {Enter, Leave}, NEW attempts,
           postAreaEventRequest(event, attempts)
    PROVE  /\ g_is_area_waiting' \in BOOLEAN
           /\ g_current_area_event_type' \in {Enter, Leave}
           /\ laneOccupied' \in BOOLEAN
<1>1. g_is_area_waiting' \in BOOLEAN
  BY DEF postAreaEventRequest, AreaWaits
<1>2. g_current_area_event_type' \in {Enter, Leave}
  BY DEF postAreaEventRequest, TypeOK
<1>3. laneOccupied' \in BOOLEAN
  BY DEF postAreaEventRequest, TypeOK
<1> QED
  BY <1>1, <1>2, <1>3

\* The observation is a truth value in every step.
LEMMA ObservedType == Observe \/ ObserveRestart => orphaned' \in BOOLEAN
<1>1. Observe => orphaned' \in BOOLEAN
  BY DEF Observe
<1>2. ObserveRestart => orphaned' \in BOOLEAN
  BY DEF ObserveRestart
<1> QED
  BY <1>1, <1>2

\* The flags are set to "go" or "stop", or left alone.
LEMMA FlagType ==
    ASSUME NEW flag \in {Go, Stop}, NEW outcome
    PROVE  /\ AreaFlag(outcome, flag) \in {Go, Stop}
           /\ BufferFlag(outcome, flag) \in {Go, Stop}
BY DEF AreaFlag, BufferFlag

\* A pose keeps the types.
LEMMA TypePose ==
    ASSUME TypeOK, NEW place \in Places, NEW due \in BOOLEAN,
           NEW reply \in BufferReplies, NEW attempts \in Attempts,
           agvPoseCallback(place, due, reply, attempts)
    PROVE  TypeOK'
<1> DEFINE asks == Asks(place, due)
           lock == IF asks /\ reply \in {"Y", "other"} THEN Near[place]
                                                      ELSE g_last_triggered_area_point
           flag == IF asks THEN AskedFlag(reply) ELSE agv_wait_flag
<1>1. flag \in {Go, Stop}
  BY FlagType DEF AskedFlag, TypeOK
<1>2. lock \in Points \cup {NoPoint}
  BY PlacesAssumption DEF TypeOK
<1>3. LockAfter(place, lock) \in Points \cup {NoPoint}
  BY <1>2 DEF LockAfter
<1>4. /\ pose' = place
      /\ g_is_buffer_waiting' = IF asks THEN AskedWaits(reply) ELSE g_is_buffer_waiting
      /\ g_last_triggered_area_point' = LockAfter(place, lock)
      /\ g_is_in_area' = Inside[place]
      /\ pointcloud_timeout_triggered' = pointcloud_timeout_triggered
      /\ Observe
  BY DEF agvPoseCallback
<1>5. /\ g_is_buffer_waiting' \in BOOLEAN /\ g_is_in_area' \in BOOLEAN
      /\ orphaned' \in BOOLEAN
  <2>1. AskedWaits(reply) \in BOOLEAN
    BY DEF AskedWaits
  <2>2. g_is_buffer_waiting \in BOOLEAN /\ Inside[place] \in BOOLEAN
    BY PlacesAssumption DEF TypeOK
  <2> QED
    BY <1>4, <2>1, <2>2, ObservedType
<1>6. CASE Inside[place] # g_is_in_area
  <2>1. /\ postAreaEventRequest(IF Inside[place] THEN Enter ELSE Leave, attempts)
        /\ agv_wait_flag' = AreaFlag(Understood(attempts), flag)
    BY <1>6 DEF agvPoseCallback
  <2>2. agv_wait_flag' \in {Go, Stop}
    BY <1>1, <2>1, FlagType
  <2>3. (IF Inside[place] THEN Enter ELSE Leave) \in {Enter, Leave}
    OBVIOUS
  <2>4. /\ g_is_area_waiting' \in BOOLEAN
        /\ g_current_area_event_type' \in {Enter, Leave}
        /\ laneOccupied' \in BOOLEAN
    BY <2>1, <2>3, LaneEventType
  <2> QED
    BY <1>3, <1>4, <1>5, <2>2, <2>4 DEF TypeOK
<1>7. CASE Inside[place] = g_is_in_area
  <2>1. /\ agv_wait_flag' = flag
        /\ UNCHANGED <<areaVars, laneOccupied>>
    BY <1>7 DEF agvPoseCallback
  <2> QED
    BY <1>1, <1>3, <1>4, <1>5, <2>1 DEF TypeOK, areaVars
<1> QED
  BY <1>6, <1>7

\* A poll keeps the types.
LEMMA TypePolls == ASSUME TypeOK, Polls PROVE TypeOK'
<1>1. CASE \E reply \in BufferReplies : bufferWaitTimerCallback(reply)
  <2>1. PICK reply \in BufferReplies : bufferWaitTimerCallback(reply)
    BY <1>1
  <2>2. agv_wait_flag' \in {Go, Stop}
    BY <2>1, FlagType DEF bufferWaitTimerCallback, TypeOK
  <2>3. g_is_buffer_waiting' \in BOOLEAN
    BY <2>1 DEF bufferWaitTimerCallback, BufferWaits
  <2>4. UNCHANGED <<pose, areaVars, g_last_triggered_area_point, g_is_in_area,
                      pointcloud_timeout_triggered, laneOccupied>>
    BY <2>1 DEF bufferWaitTimerCallback
  <2>5. orphaned' \in BOOLEAN
    BY <2>1, ObservedType DEF bufferWaitTimerCallback
  <2> QED
    BY <2>2, <2>3, <2>4, <2>5 DEF TypeOK, areaVars
<1>2. CASE \E attempts \in Attempts : areaWaitTimerCallback(attempts)
  <2>1. PICK attempts \in Attempts : areaWaitTimerCallback(attempts)
    BY <1>2
  <2>2. agv_wait_flag' \in {Go, Stop}
    BY <2>1, FlagType DEF areaWaitTimerCallback, TypeOK
  <2>3. g_current_area_event_type \in {Enter, Leave}
    BY DEF TypeOK
  <2>4. /\ g_is_area_waiting' \in BOOLEAN
        /\ g_current_area_event_type' \in {Enter, Leave}
        /\ laneOccupied' \in BOOLEAN
    BY <2>1, <2>3, LaneEventType DEF areaWaitTimerCallback
  <2>5. UNCHANGED <<pose, g_is_buffer_waiting, g_last_triggered_area_point,
                    g_is_in_area, pointcloud_timeout_triggered>>
    BY <2>1 DEF areaWaitTimerCallback
  <2>6. orphaned' \in BOOLEAN
    BY <2>1, ObservedType DEF areaWaitTimerCallback
  <2> QED
    BY <2>2, <2>4, <2>5, <2>6 DEF TypeOK
<1> QED
  BY <1>1, <1>2 DEF Polls

\* Every step keeps the types.
LEMMA TypeStep == TypeOK /\ [Next]_vars => TypeOK'
<1> SUFFICES ASSUME TypeOK, [Next]_vars PROVE TypeOK'
  OBVIOUS
<1>1. CASE Pose
  BY <1>1, TypePose DEF Pose
<1>2. CASE Polls
  BY <1>2, TypePolls
<1>3. CASE Ndt
  BY <1>3, ObservedType DEF Ndt, checkTimeoutCallback, points_callback, TypeOK, areaVars
<1>4. CASE RestartDispatch \/ RestartNdt
  BY <1>4, ObservedType DEF RestartDispatch, RestartNdt, TypeOK, areaVars
<1>5. CASE UNCHANGED vars
  BY <1>5 DEF vars, areaVars, TypeOK
<1> QED
  BY <1>1, <1>2, <1>3, <1>4, <1>5 DEF Next

\* So does the start.
LEMMA TypeStart == Init => TypeOK
BY DEF Init, NodeInit, TypeOK

\* Every variable keeps its type, through restarts too.
THEOREM WaitTypeCorrect == Spec => []TypeOK
BY TypeStart, TypeStep, PTL DEF Spec

-----------------------------------------------------------------------------
\* A lock never outlives the visit: only the pose callback and a restart
\* change the lock or the place it belongs to.
THEOREM LockForThisVisitAlways == Spec => []LockForThisVisit
<1>1. Init => LockForThisVisit
  BY DEF Init, NodeInit, LockForThisVisit
<1>2. ASSUME LockForThisVisit, [Next]_vars PROVE LockForThisVisit'
  <2>1. CASE Pose
    <3>1. PICK place \in Places :
             /\ pose' = place
             /\ \E lock : g_last_triggered_area_point' = LockAfter(place, lock)
      BY <2>1 DEF Pose, agvPoseCallback
    <3> QED
      BY <3>1 DEF LockAfter, LockForThisVisit
  <2>2. CASE Polls
    BY <1>2, <2>2 DEF Polls, bufferWaitTimerCallback, areaWaitTimerCallback, LockForThisVisit
  <2>3. CASE Ndt \/ RestartNdt
    BY <1>2, <2>3 DEF Ndt, checkTimeoutCallback, points_callback, RestartNdt, LockForThisVisit
  <2>4. CASE RestartDispatch
    BY <2>4 DEF RestartDispatch, LockForThisVisit
  <2>5. CASE UNCHANGED vars
    BY <1>2, <2>5 DEF vars, LockForThisVisit
  <2> QED
    BY <1>2, <2>1, <2>2, <2>3, <2>4, <2>5 DEF Next
<1> QED
  BY <1>1, <1>2, PTL DEF Spec

-----------------------------------------------------------------------------
\* After a lane event the vehicle is stopped only if it was stopped by
\* another wait, or the node now waits for the lane.
LEMMA LaneEventStops ==
    ASSUME NEW event, NEW attempts, NEW flag \in {Go, Stop},
           postAreaEventRequest(event, attempts),
           AreaFlag(Understood(attempts), flag) = Stop
    PROVE  g_is_area_waiting' \/ (flag = Stop /\ Understood(attempts) = "failed")
<1>1. Understood(attempts) = "Y" \/ (flag = Stop /\ Understood(attempts) = "failed")
  BY DEF AreaFlag, Go, Stop
<1>2. ASSUME Understood(attempts) = "Y" PROVE g_is_area_waiting'
  <2>1. AreaWaits(Understood(attempts), g_is_area_waiting)
    BY <1>2 DEF AreaWaits
  <2> QED
    BY <2>1 DEF postAreaEventRequest
<1> QED
  BY <1>1, <1>2

\* A request that failed altogether leaves the lane wait as it was.
LEMMA LaneEventFails ==
    ASSUME TypeOK, NEW event, NEW attempts, postAreaEventRequest(event, attempts),
           Understood(attempts) = "failed"
    PROVE  g_is_area_waiting' = g_is_area_waiting
BY DEF postAreaEventRequest, AreaWaits, TypeOK

\* A step of a node that stays up keeps the property if a stop that nothing
\* watches after it was in force, and unwatched, before it.
LEMMA StopKept ==
    ASSUME StopHasPoll, Observe,
           agv_wait_flag' = Stop /\ ~Watched' => agv_wait_flag = Stop /\ ~Watched
    PROVE  StopHasPoll'
<1> SUFFICES ASSUME agv_wait_flag' = Stop, ~Watched' PROVE orphaned'
  BY DEF StopHasPoll
<1>1. orphaned
  BY DEF StopHasPoll
<1> QED
  BY <1>1 DEF Observe

\* A pose never leaves a new stop unwatched.
LEMMA StopKeptByPose ==
    ASSUME TypeOK, StopHasPoll, NEW place \in Places, NEW due \in BOOLEAN,
           NEW reply \in BufferReplies, NEW attempts \in Attempts,
           agvPoseCallback(place, due, reply, attempts)
    PROVE  StopHasPoll'
<1> DEFINE asks == Asks(place, due)
           flag == IF asks THEN AskedFlag(reply) ELSE agv_wait_flag
<1>1. /\ g_is_buffer_waiting' = IF asks THEN AskedWaits(reply) ELSE g_is_buffer_waiting
      /\ pointcloud_timeout_triggered' = pointcloud_timeout_triggered
      /\ Observe
  BY DEF agvPoseCallback
<1>2. flag \in {Go, Stop}
  BY FlagType DEF AskedFlag, TypeOK
<1>3. asks => ~g_is_buffer_waiting
  BY DEF Asks
<1>4. flag = Stop /\ ~g_is_buffer_waiting' => agv_wait_flag = Stop /\ ~g_is_buffer_waiting
  <2>1. CASE asks
    <3>1. flag = Stop => reply \in {"N", "failed"} \/ agv_wait_flag = Stop
      BY <2>1 DEF AskedFlag, BufferFlag, Go, Stop
    <3>2. reply \in {"N", "failed"} => g_is_buffer_waiting'
      BY <1>1, <2>1 DEF AskedWaits
    <3> QED
      BY <1>3, <2>1, <3>1, <3>2
  <2>2. CASE ~asks
    BY <1>1, <2>2
  <2> QED
    BY <2>1, <2>2
<1> SUFFICES ASSUME agv_wait_flag' = Stop, ~Watched' PROVE agv_wait_flag = Stop /\ ~Watched
  BY <1>1, StopKept
<1>5. /\ ~g_is_buffer_waiting' /\ ~g_is_area_waiting' /\ ~pointcloud_timeout_triggered'
  BY DEF Watched
<1>6. flag = Stop /\ g_is_area_waiting' = g_is_area_waiting
  <2>1. CASE Inside[place] # g_is_in_area
    <3>1. PICK event : /\ postAreaEventRequest(event, attempts)
                       /\ agv_wait_flag' = AreaFlag(Understood(attempts), flag)
      BY <2>1 DEF agvPoseCallback
    <3> HIDE DEF flag
    <3> QED
      BY <1>2, <1>5, <3>1, LaneEventStops, LaneEventFails
  <2>2. CASE Inside[place] = g_is_in_area
    BY <2>2 DEF agvPoseCallback, areaVars
  <2> QED
    BY <2>1, <2>2
<1> QED
  BY <1>1, <1>4, <1>5, <1>6 DEF Watched

\* A vehicle that was told to stop is watched by a poll or by the point cloud
\* watchdog, whichever wait stopped it and whatever the others published,
\* unless a restart left its stop behind.
THEOREM StopHasPollAlways == Spec => []StopHasPoll
<1>1. Init => TypeOK /\ StopHasPoll
  BY TypeStart DEF Init, StopHasPoll, Go, Stop
<1>2. ASSUME TypeOK, StopHasPoll, [Next]_vars PROVE TypeOK' /\ StopHasPoll'
  <2>1. TypeOK'
    BY <1>2, TypeStep
  <2>2. CASE Pose
    BY <1>2, <2>1, <2>2, StopKeptByPose DEF Pose
  <2>3. CASE \E reply \in BufferReplies : bufferWaitTimerCallback(reply)
    <3>1. PICK reply \in BufferReplies : bufferWaitTimerCallback(reply)
      BY <2>3
    <3>2. agv_wait_flag' = Stop => reply # "Y"
      BY <3>1 DEF bufferWaitTimerCallback, BufferFlag, Go, Stop
    <3>3. reply # "Y" => BufferWaits(reply, TRUE)
      BY DEF BufferWaits
    <3>4. g_is_buffer_waiting' = BufferWaits(reply, TRUE)
      BY <3>1 DEF bufferWaitTimerCallback
    <3> QED
      BY <2>1, <3>2, <3>3, <3>4 DEF StopHasPoll, Watched
  <2>4. CASE \E attempts \in Attempts : areaWaitTimerCallback(attempts)
    <3>1. PICK attempts \in Attempts : areaWaitTimerCallback(attempts)
      BY <2>4
    <3>2. /\ postAreaEventRequest(g_current_area_event_type, attempts)
          /\ agv_wait_flag' = AreaFlag(Understood(attempts), agv_wait_flag)
          /\ g_is_area_waiting
      BY <3>1 DEF areaWaitTimerCallback
    <3>3. agv_wait_flag' = Stop => g_is_area_waiting'
      BY <1>2, <3>2, LaneEventStops, LaneEventFails DEF TypeOK
    <3> QED
      BY <2>1, <3>3 DEF StopHasPoll, Watched
  <2>5. CASE Ndt
    BY <1>2, <2>1, <2>5 DEF Ndt, checkTimeoutCallback, points_callback, StopHasPoll,
                            Watched, Go, Stop
  <2>6. CASE RestartDispatch \/ RestartNdt
    BY <2>1, <2>6 DEF RestartDispatch, RestartNdt, ObserveRestart, StopHasPoll
  <2>7. CASE UNCHANGED vars
    BY <1>2, <2>1, <2>7 DEF vars, areaVars, StopHasPoll, Watched
  <2> QED
    BY <1>2, <2>2, <2>3, <2>4, <2>5, <2>6, <2>7 DEF Next, Polls
<1> QED
  BY <1>1, <1>2, PTL DEF Spec
===============================================================================
