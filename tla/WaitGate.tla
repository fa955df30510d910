------------------------------- MODULE WaitGate -------------------------------
(***************************************************************************)
(* Stopping and releasing the vehicle on the topic agv_wait_flag: the      *)
(* permission asked at the buffer points, the enter and leave events of    *)
(* the shared lane, their two polling timers, and the stop NDT matching    *)
(* publishes when the point cloud stops coming.                            *)
(*                                                                         *)
(* All callbacks of the dispatch node run in one thread, so each is one    *)
(* step, HTTP requests included.  They block for seconds while the vehicle *)
(* drives on and poses are dropped, so the next pose handled can be        *)
(* anywhere.  The third wait of the code (postTaskEventTrigger) is asked   *)
(* at g_request_points only, which is empty, and is left out.              *)
(***************************************************************************)
EXTENDS Integers, Sequences

CONSTANTS
    Points,    \* g_area_points, the points where permission is asked
    NoPoint,   \* the empty g_last_triggered_area_point
    Places,    \* where the vehicle can be, as far as the tests below tell
    Near,      \* place -> the point within 0.6 m, or NoPoint
    Hold,      \* place -> the point within 0.8 m, or NoPoint
    Inside     \* place -> whether it is in g_area_polygon

\* The points are more than 1.6 m apart, so a place is within reach of at most
\* one of them.
ASSUME PlacesAssumption ==
    /\ NoPoint \notin Points
    /\ Near \in [Places -> Points \cup {NoPoint}]
    /\ Hold \in [Places -> Points \cup {NoPoint}]
    /\ Inside \in [Places -> BOOLEAN]
    /\ \A p \in Places : Near[p] # NoPoint => Hold[p] = Near[p]

Go == 0
Stop == 1
Enter == 5    \* event types of the lane
Leave == 6

VARIABLES
    pose,                         \* place of the last pose handled
    \* of the dispatch node; a polling timer runs exactly while its waiting
    \* flag is set, the code changes both together
    g_is_buffer_waiting, g_is_area_waiting, g_current_area_event_type,
    g_last_triggered_area_point, g_is_in_area,
    agv_wait_flag,                \* last value published on the topic
    pointcloud_timeout_triggered, \* latch of NDT matching
    laneOccupied,                 \* what the server was told last
    orphaned                      \* observation: the stop in force is one that
                                  \* a restart of its node left behind

areaVars == <<g_is_area_waiting, g_current_area_event_type>>
vars == <<pose, g_is_buffer_waiting, areaVars, g_last_triggered_area_point, g_is_in_area,
          agv_wait_flag, pointcloud_timeout_triggered, laneOccupied, orphaned>>

\* Something is under way that will ask again, or publish again.
Watched == g_is_buffer_waiting \/ g_is_area_waiting \/ pointcloud_timeout_triggered

\* A stop left behind stays so until it is taken back or watched again.
Observe == orphaned' = (orphaned /\ agv_wait_flag' = Stop /\ ~Watched')
ObserveRestart == orphaned' = (agv_wait_flag' = Stop /\ ~Watched')

\* Mutant: no event type to poll with yet.
NodeInitNoType ==
    /\ g_is_buffer_waiting = FALSE
    /\ g_is_area_waiting = FALSE
    /\ g_current_area_event_type = 0
    /\ g_last_triggered_area_point = NoPoint
    /\ g_is_in_area = FALSE

NodeInit ==
    /\ g_is_buffer_waiting = FALSE
    /\ g_is_area_waiting = FALSE
    /\ g_current_area_event_type = Enter
    /\ g_last_triggered_area_point = NoPoint
    /\ g_is_in_area = FALSE

Init ==
    /\ pose \in {p \in Places : Hold[p] = NoPoint /\ ~Inside[p]}
    /\ NodeInit
    /\ agv_wait_flag = Go
    /\ pointcloud_timeout_triggered = FALSE
    /\ laneOccupied = FALSE
    /\ orphaned = FALSE

-----------------------------------------------------------------------------
(* Permission at a buffer point: getLaneOccupancy *)

\* How a request can end: no connection or a status other than 200, isAllowed
\* Y, N or something else (a reply without it counts as Y), or a body that
\* does not parse: every one after the token had to be renewed.
BufferReplies == {"failed", "Y", "N", "other", "garbled"}

\* The flag after postBufferEntryRequest, given the flag before.
BufferFlag(reply, flag) ==
    IF reply \in {"Y", "other"} THEN Go
    ELSE IF reply = "N" THEN Stop
    ELSE flag

\* Mutant: any answer but N ends the wait.
BufferWaitsForN(reply, waits) == reply = "N"

\* Waiting starts with N and ends with Y only.
BufferWaits(reply, waits) == reply = "N" \/ (waits /\ reply # "Y")

\* bufferWaitTimerCallback, every 10 s while waiting.
bufferWaitTimerCallback(reply) ==
    /\ g_is_buffer_waiting
    /\ agv_wait_flag' = BufferFlag(reply, agv_wait_flag)
    /\ g_is_buffer_waiting' = BufferWaits(reply, TRUE)
    /\ UNCHANGED <<pose, areaVars, g_last_triggered_area_point, g_is_in_area,
                   pointcloud_timeout_triggered, laneOccupied>>
    /\ Observe

-----------------------------------------------------------------------------
(* Lane events: addLaneOccupancy *)

Answers == {"Y", "N", "other", "garbled"}
MaxRetries == 3

\* The exchanges of one request: up to two failed attempts and the answer, or
\* three failures.  A refused attempt leaves a body: a status other than 200, or
\* a login that fails after a 401.  With an expired token httpPost logs in and
\* repeats the request, and that is no new attempt.
Attempts ==
    LET Failures(n) == [1..n -> {"unreachable", "refused"}]
        Before == UNION {Failures(n) : n \in 0..(MaxRetries - 1)}
    IN  {f \o e \o <<a>> : f \in Before, e \in {<<>>, <<"expired">>}, a \in Answers}
          \cup Failures(MaxRetries)

Answered(attempts) == attempts[Len(attempts)] \in Answers

\* What the code makes of the attempts.  The bodies of all exchanges are
\* appended to one string, so that of a refusal spoils the answer, also where
\* the token has been renewed.
Understood(attempts) ==
    IF ~Answered(attempts) THEN "failed"
    ELSE IF \E i \in DOMAIN attempts : attempts[i] \in {"refused", "expired"} THEN "garbled"
    ELSE attempts[Len(attempts)]

\* The flag after postAreaEventRequest: an answer that cannot be understood
\* counts as go, a request that failed altogether publishes nothing.
AreaFlag(outcome, flag) ==
    IF outcome = "Y" THEN Stop
    ELSE IF outcome = "failed" THEN flag
    ELSE Go

\* Waiting starts with isStopNow Y and ends with N only.
AreaWaits(outcome, waits) == outcome = "Y" \/ (waits /\ outcome # "N")

\* postAreaEventRequest: the waiting flag, its timer, the event type to poll
\* with, and what the server knows.  A failed attempt may have been processed.
postAreaEventRequest(event, attempts) ==
    LET outcome == Understood(attempts)
    IN  /\ g_is_area_waiting' = AreaWaits(outcome, g_is_area_waiting)
        /\ g_current_area_event_type' =
              IF outcome = "Y" /\ ~g_is_area_waiting THEN event
                                                     ELSE g_current_area_event_type
        /\ \/ laneOccupied' = (event = Enter)
           \/ ~Answered(attempts) /\ UNCHANGED laneOccupied

\* areaWaitTimerCallback, every 9 s while waiting.
areaWaitTimerCallback(attempts) ==
    /\ g_is_area_waiting
    /\ postAreaEventRequest(g_current_area_event_type, attempts)
    /\ agv_wait_flag' = AreaFlag(Understood(attempts), agv_wait_flag)
    /\ UNCHANGED <<pose, g_is_buffer_waiting, g_last_triggered_area_point, g_is_in_area,
                   pointcloud_timeout_triggered>>
    /\ Observe

-----------------------------------------------------------------------------
(* A pose *)

\* A pose near a point that is not locked asks, at most once a second (due)
\* and not while already waiting.
Asks(place, due) ==
    /\ due
    /\ Near[place] \notin {NoPoint, g_last_triggered_area_point}
    /\ ~g_is_buffer_waiting

\* Mutant: a request that failed publishes the stop but starts no wait.
AskedWaitsNoStart(reply) == reply = "N"

\* A request that failed at the point stops the vehicle and waits as well.
AskedFlag(reply) == IF reply = "failed" THEN Stop ELSE BufferFlag(reply, agv_wait_flag)
AskedWaits(reply) == reply \in {"N", "failed"}

\* Mutant: the lock is never reset.
LockKept(place, lock) == lock

\* The lock is reset once its point is more than 0.8 m away.
LockAfter(place, lock) == IF Hold[place] = lock THEN lock ELSE NoPoint

\* agvPoseCallback: the buffer point, the reset of its lock, then the lane.
\* A permission given locks the point; g_is_in_area follows the pose whatever
\* became of the request.
agvPoseCallback(place, due, reply, attempts) ==
    LET asks == Asks(place, due)
        lock == IF asks /\ reply \in {"Y", "other"} THEN Near[place]
                                                    ELSE g_last_triggered_area_point
        flag == IF asks THEN AskedFlag(reply) ELSE agv_wait_flag
    IN  /\ pose' = place
        /\ g_is_buffer_waiting' = IF asks THEN AskedWaits(reply) ELSE g_is_buffer_waiting
        /\ g_last_triggered_area_point' = LockAfter(place, lock)
        /\ g_is_in_area' = Inside[place]
        /\ IF Inside[place] # g_is_in_area
           THEN /\ postAreaEventRequest(IF Inside[place] THEN Enter ELSE Leave, attempts)
                /\ agv_wait_flag' = AreaFlag(Understood(attempts), flag)
           ELSE /\ agv_wait_flag' = flag
                /\ UNCHANGED <<areaVars, laneOccupied>>
        /\ UNCHANGED pointcloud_timeout_triggered
        /\ Observe

-----------------------------------------------------------------------------
(* NDT matching, and restarts *)

\* checkTimeoutCallback: no point cloud for 0.3 s, published once.
checkTimeoutCallback ==
    /\ ~pointcloud_timeout_triggered
    /\ pointcloud_timeout_triggered' = TRUE
    /\ agv_wait_flag' = Stop
    /\ UNCHANGED <<pose, g_is_buffer_waiting, areaVars, g_last_triggered_area_point,
                   g_is_in_area, laneOccupied>>
    /\ Observe

\* points_callback: the point cloud is back.
points_callback ==
    /\ pointcloud_timeout_triggered
    /\ pointcloud_timeout_triggered' = FALSE
    /\ agv_wait_flag' = Go
    /\ UNCHANGED <<pose, g_is_buffer_waiting, areaVars, g_last_triggered_area_point,
                   g_is_in_area, laneOccupied>>
    /\ Observe

\* Either node is started again by the operator.  Neither publishes the flag.
RestartDispatch ==
    /\ g_is_buffer_waiting' = FALSE
    /\ g_is_area_waiting' = FALSE
    /\ g_current_area_event_type' = Enter
    /\ g_last_triggered_area_point' = NoPoint
    /\ g_is_in_area' = FALSE
    /\ UNCHANGED <<pose, agv_wait_flag, pointcloud_timeout_triggered, laneOccupied>>
    /\ ObserveRestart

RestartNdt ==
    /\ pointcloud_timeout_triggered' = FALSE
    /\ UNCHANGED <<pose, g_is_buffer_waiting, areaVars, g_last_triggered_area_point,
                   g_is_in_area, agv_wait_flag, laneOccupied>>
    /\ ObserveRestart

-----------------------------------------------------------------------------
Pose ==
    \E place \in Places, due \in BOOLEAN, reply \in BufferReplies, attempts \in Attempts :
        agvPoseCallback(place, due, reply, attempts)

Polls ==
    \/ \E reply \in BufferReplies : bufferWaitTimerCallback(reply)
    \/ \E attempts \in Attempts : areaWaitTimerCallback(attempts)

Ndt == checkTimeoutCallback \/ points_callback

Next == Pose \/ Polls \/ Ndt \/ RestartDispatch \/ RestartNdt

Spec == Init /\ [][Next]_vars

(* Fairness.  The polling timers are periodic, the lidar comes back, and the  *)
(* server, asked again and again, at some time gives the permission and lets  *)
(* the answer through.                                                        *)
FairSpec ==
    /\ Spec
    /\ WF_vars(bufferWaitTimerCallback("Y"))
    /\ WF_vars(areaWaitTimerCallback(<<"N">>))
    /\ WF_vars(points_callback)

-----------------------------------------------------------------------------
(* Properties *)

\* The types of the variables.
TypeOK ==
    /\ pose \in Places
    /\ g_is_buffer_waiting \in BOOLEAN
    /\ g_is_area_waiting \in BOOLEAN
    /\ g_current_area_event_type \in {Enter, Leave}
    /\ g_last_triggered_area_point \in Points \cup {NoPoint}
    /\ g_is_in_area \in BOOLEAN
    /\ agv_wait_flag \in {Go, Stop}
    /\ pointcloud_timeout_triggered \in BOOLEAN
    /\ laneOccupied \in BOOLEAN
    /\ orphaned \in BOOLEAN

\* A permission is good for one visit of its point: the lock is gone once the
\* vehicle is out of its reach, so that the next visit asks again.
LockForThisVisit ==
    g_last_triggered_area_point # NoPoint => Hold[pose] = g_last_triggered_area_point

\* Whichever of the three waits stopped the vehicle, and whatever the other
\* two published since: while the last word is "stop", something is under way
\* that will ask again, unless a restart left this very stop behind.
StopHasPoll == agv_wait_flag = Stop => Watched \/ orphaned

\* Once the nodes stay up, a stopped vehicle is released again, whatever they
\* went through before, unless a restart orphaned its stop.
NodesStayUp == <>[][~(RestartDispatch \/ RestartNdt)]_vars
Released == NodesStayUp => (agv_wait_flag = Stop ~> agv_wait_flag = Go \/ orphaned)

\* task_handlers.cpp says that the lane is reported occupied (5) on entering
\* and free (6) on leaving: a poll reports what the vehicle is doing.
PollReportsWhereabouts ==
    [][(\E attempts \in Attempts : areaWaitTimerCallback(attempts))
       => (laneOccupied' # laneOccupied => laneOccupied' = g_is_in_area)]_vars
===============================================================================
