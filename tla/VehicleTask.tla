------------------------------ MODULE VehicleTask ------------------------------
(***************************************************************************)
(* The main loop of the firmware (stm32f4/User): how a task code becomes a  *)
(* path, how the path is driven row by row, and when the code is reported   *)
(* as done.                                                                 *)
(*                                                                          *)
(* One pass of the loop in Run() reads the switches, and in automatic mode  *)
(* reads the receive buffer, tests the start position, reads the buffer     *)
(* again and takes one step of the path.  pc names the part that comes      *)
(* next; frames arrive in the UART interrupt between any two parts.  The    *)
(* receive buffer holds one frame, each frame replaces it, and nothing      *)
(* clears it: the frame is read again in every pass until the next arrives. *)
(* Frames are at least g_min_tx_gap_ms apart: at most one arrives while the *)
(* buffer is being read, and it may do so between two of the bytes read.    *)
(*                                                                          *)
(* A row of a path is one of its lines and turns; steering, speed, brakes   *)
(* and the numbers of the pose are left out, and how far a row has got and  *)
(* whether an obstacle is seen are left open.                               *)
(***************************************************************************)
EXTENDS Integers, Sequences

CONSTANTS
    Published,   \* dispatch codes the dispatch node can publish
    Codes,       \* those with a path table in the firmware (101..141)
    Length,      \* SEQn_LEN: rows of the path of a code
    Points,      \* relaxPoint: the positions at which a task may start
    Away,        \* any other position
    Start, End,  \* where the path of a code begins and ends
    NonStop,     \* codes after which the vehicle does not pause
    MaxRows      \* rows of the path buffers

NoCode == 0
Places == Points \cup {Away}
Row == [path : Codes, k : 1..MaxRows]
NoRow == [path |-> NoCode, k |-> 0]
NoFrame == [id |-> NoCode, switch |-> FALSE]   \* a frame other than 'd', or none

ASSUME VehicleTaskAssumption ==
    /\ Codes \subseteq Published
    /\ Published \subseteq 1..255
    /\ MaxRows \in Nat
    /\ Length \in [Codes -> 1..MaxRows]
    /\ Away \notin Points
    /\ Start \in [Codes -> Points]
    /\ End \in [Codes -> Points]

VARIABLES
    \* the bridge and the link
    task_sequence_request,  \* the code published last
    g_last_task_id,         \* the code the bridge sent last
    t8266revbuf,            \* the receive buffer
    \* the main loop
    pc, FB_IS_PAUSED, SelfTestResult,
    \* the path on its way from the table to the wheels
    AGVtasklimit, Checksum_Error, cangpsbuf2, Task_Count,
    now_task, TaskTotal, TaskCount, goal, task_status,
    \* what is reported
    taskseq, newAGVtaskover,
    \* the world: where the vehicle is, and the rows it has driven to their
    \* end since it took its path (observation only)
    place, driven

linkVars   == <<task_sequence_request, g_last_task_id, t8266revbuf>>
bufferVars == <<AGVtasklimit, Checksum_Error, cangpsbuf2, Task_Count>>
pathVars   == <<now_task, TaskTotal, TaskCount, goal, task_status>>
doneVars   == <<taskseq, newAGVtaskover>>
worldVars  == <<place, driven>>

vars == <<linkVars, pc, FB_IS_PAUSED, SelfTestResult, bufferVars, pathVars,
          doneVars, worldVars>>

-----------------------------------------------------------------------------
\* The values of task_status; lines and turns (1, 2, 3, 5) are one.
Idle == 0
Driving == 1
Stopping == 4
Fetching == 9

\* The positions of the mode switch.
Remote == 1
Automatic == 2
Parking == 3

Empty == [j \in 1..MaxRows |-> NoRow]

\* datadeal2 for every row of the table: rows beyond its length keep what an
\* earlier path left there.
Overlay(buf, c) ==
    [j \in 1..MaxRows |-> IF j <= Length[c] THEN [path |-> c, k |-> j] ELSE buf[j]]

Init ==
    /\ task_sequence_request = NoCode
    /\ g_last_task_id = NoCode
    /\ t8266revbuf = NoFrame
    /\ pc = "top"
    /\ FB_IS_PAUSED = FALSE
    /\ SelfTestResult = 0
    /\ AGVtasklimit = 0
    /\ Checksum_Error = 0
    /\ cangpsbuf2 = Empty
    /\ Task_Count = 0
    /\ now_task = Empty
    /\ TaskTotal = 0
    /\ TaskCount = 0
    /\ goal = NoRow
    /\ task_status = Idle
    /\ taskseq = NoCode
    /\ newAGVtaskover = NoCode
    /\ place \in Places
    /\ driven = <<>>

-----------------------------------------------------------------------------
(* The link *)

\* A code is published, and the bridge sends it in a 'd' frame whose switch flag
\* says whether it differs from the one sent before.
Sends(c) ==
    /\ task_sequence_request' = c
    /\ t8266revbuf' = [id |-> c, switch |-> c # g_last_task_id]
    /\ g_last_task_id' = c

\* A pose ('t') or wait ('w') frame takes the place of the frame received
\* before, read or not.  Their second and third bytes are no code and no flag.
Replaced ==
    /\ t8266revbuf' = NoFrame
    /\ UNCHANGED <<task_sequence_request, g_last_task_id>>

taskCb(c) ==
    /\ Sends(c)
    /\ UNCHANGED <<pc, FB_IS_PAUSED, SelfTestResult, bufferVars, pathVars,
                   doneVars, worldVars>>

OtherFrame ==
    /\ Replaced
    /\ UNCHANGED <<pc, FB_IS_PAUSED, SelfTestResult, bufferVars, pathVars,
                   doneVars, worldVars>>

\* The interrupt may replace the frame while it is being read.
Arrival == UNCHANGED linkVars \/ Replaced \/ \E c \in Published : Sends(c)

\* The bridge is started again and has forgotten the code it sent last.
RestartBridge ==
    /\ g_last_task_id' = NoCode
    /\ UNCHANGED <<task_sequence_request, t8266revbuf, pc, FB_IS_PAUSED,
                   SelfTestResult, bufferVars, pathVars, doneVars, worldVars>>

-----------------------------------------------------------------------------
(* The main loop *)

\* Mutant: the path taken is forgotten, the rows still to be copied are not.
RevokeKeepsCount ==
    /\ cangpsbuf2' = Empty
    /\ now_task' = Empty
    /\ TaskTotal' = 0
    /\ TaskCount' = 0
    /\ task_status' = Idle
    /\ UNCHANGED <<AGVtasklimit, Checksum_Error, Task_Count, goal>>

\* The three memset of the switch handling and RevokeControl.
RevokeControl ==
    /\ cangpsbuf2' = Empty
    /\ now_task' = Empty
    /\ Task_Count' = 0
    /\ TaskTotal' = 0
    /\ TaskCount' = 0
    /\ task_status' = Idle
    /\ UNCHANGED <<AGVtasklimit, Checksum_Error, goal>>

\* Mutant: the emergency stop stops the vehicle and keeps its path.
RevokedByParking(mode, stop) == mode = Parking

Revoked(mode, stop) == mode = Parking \/ stop

\* The start of a pass: HomeTrans, then what the mode switch and the emergency
\* stop ask for.  The operator may drive the vehicle anywhere in remote mode,
\* and the pause switches may be in any position.
ReadSwitches(mode, stop, paused, to) ==
    /\ pc = "top"
    /\ mode # Remote => to = place
    /\ place' = to
    /\ FB_IS_PAUSED' = (paused /\ mode # Remote)
    /\ IF Revoked(mode, stop)
       THEN RevokeControl
       ELSE UNCHANGED <<bufferVars, pathVars>>
    /\ driven' = IF mode = Parking \/ stop THEN <<>> ELSE driven
    /\ SelfTestResult' = IF mode \in {Remote, Parking} \/ stop THEN 0
                         ELSE SelfTestResult
    /\ taskseq' = IF mode = Parking THEN NoCode ELSE taskseq
    /\ newAGVtaskover' = IF mode = Parking \/ stop THEN NoCode ELSE newAGVtaskover
    /\ pc' = IF mode = Automatic THEN "auto" ELSE "top"
    /\ UNCHANGED linkVars

\* Mutant: the limit is counted up without the reset that precedes it.
LimitCounted(load) == IF load THEN AGVtasklimit + 1 ELSE AGVtasklimit

\* AGVtasklimit is 0 whenever a path is loaded, and 1 afterwards.
Limit(load) == IF load THEN 1 ELSE AGVtasklimit

\* comm_path_trans, a 'd' frame: the task is relabelled whatever the flag says;
\* the flag clears the buffers and asks for a new self test; the path is loaded
\* when allowed by AGVtasklimit or when the last attempt to take one failed.
\* Codes without a path are ignored.  The flag is read after the code and may be
\* that of the frame that has just arrived.
comm_path_trans ==
    /\ Arrival
    /\ IF t8266revbuf.id \in Codes
       THEN LET id == t8266revbuf.id
                switch == t8266revbuf'.switch
                load == switch \/ AGVtasklimit = 0 \/ Checksum_Error = 1
            IN  /\ taskseq' = id
                /\ cangpsbuf2' = IF load
                                 THEN Overlay(IF switch THEN Empty ELSE cangpsbuf2, id)
                                 ELSE cangpsbuf2
                /\ now_task' = IF switch THEN Empty ELSE now_task
                /\ SelfTestResult' = IF switch THEN 0 ELSE SelfTestResult
                /\ AGVtasklimit' = Limit(load)
                /\ Task_Count' = IF load THEN Length[id] ELSE Task_Count
       ELSE UNCHANGED <<taskseq, cangpsbuf2, now_task, SelfTestResult,
                        AGVtasklimit, Task_Count>>

\* What comm_path_trans leaves alone.
commUnchanged == <<Checksum_Error, TaskTotal, TaskCount, goal,
                   task_status, newAGVtaskover, worldVars>>

\* Automatic mode: the switches are read again; without a self test result the
\* frame is read and the test follows, a failed one is kept until the switch
\* is turned.
EnterAuto(paused) ==
    /\ pc = "auto"
    /\ FB_IS_PAUSED' = paused
    /\ IF SelfTestResult = 0
       THEN comm_path_trans /\ pc' = "selftest"
       ELSE /\ pc' = IF SelfTestResult = 1 THEN "drive" ELSE "top"
            /\ UNCHANGED <<linkVars, taskseq, cangpsbuf2, now_task, SelfTestResult,
                           AGVtasklimit, Task_Count>>
    /\ UNCHANGED commUnchanged

\* StartPositionTest: with a task, its start or nothing (0, to be tested
\* again); without one, any known point will do (2 elsewhere).
StartPositionTest ==
    IF taskseq \in Codes
    THEN IF place = Start[taskseq] THEN 1 ELSE 0
    ELSE IF place # Away THEN 1 ELSE 2

SelfTest ==
    /\ pc = "selftest"
    /\ SelfTestResult' = StartPositionTest
    /\ AGVtasklimit' = IF StartPositionTest = 1 THEN 0 ELSE AGVtasklimit
    /\ pc' = IF StartPositionTest = 1 THEN "drive" ELSE "top"
    /\ UNCHANGED <<linkVars, FB_IS_PAUSED, Checksum_Error, cangpsbuf2, Task_Count,
                   pathVars, doneVars, worldVars>>

\* Self test passed: the frame is read once more before the vehicle is driven.
ReadAgain ==
    /\ pc = "drive"
    /\ comm_path_trans
    /\ pc' = "control"
    /\ UNCHANGED FB_IS_PAUSED
    /\ UNCHANGED commUnchanged

\* Paused, an obstacle, a lost lidar or a pose out of tolerance: no step.
Hold ==
    /\ pc = "control"
    /\ pc' = "top"
    /\ UNCHANGED <<linkVars, FB_IS_PAUSED, SelfTestResult, bufferVars, pathVars,
                   doneVars, worldVars>>

InControl(status) ==
    /\ pc = "control"
    /\ ~FB_IS_PAUSED
    /\ task_status = status

\* Mutant: the row counter starts at the row after the first.
SecondRow == 2

FirstRow == 1

\* GetTaskSystem: take the path out of the buffer.  Without one the failure is
\* remembered in Checksum_Error.
GetTaskSystem ==
    /\ InControl(Idle)
    /\ IF Task_Count = 0
       THEN /\ Checksum_Error' = 1
            /\ TaskCount' = 0
            /\ now_task' = Empty
            /\ pc' = "top"
            /\ UNCHANGED <<cangpsbuf2, TaskTotal, task_status, driven>>
       ELSE /\ Checksum_Error' = 0
            /\ TaskCount' = FirstRow
            /\ TaskTotal' = Task_Count
            /\ now_task' = [j \in 1..MaxRows |->
                               IF j <= Task_Count THEN cangpsbuf2[j] ELSE NoRow]
            /\ cangpsbuf2' = Empty
            /\ task_status' = Fetching
            /\ driven' = <<>>
            /\ pc' = "fetch"
    /\ UNCHANGED <<linkVars, FB_IS_PAUSED, SelfTestResult, AGVtasklimit,
                   Task_Count, goal, doneVars, place>>

\* LineProcess, TurnProcess, ReverseProcess, ReverseTurnProcess: a step along
\* the row that does not end it.
DriveOn ==
    /\ InControl(Driving)
    /\ pc' = "top"
    /\ place' \in {place, Away}
    /\ UNCHANGED <<linkVars, FB_IS_PAUSED, SelfTestResult, bufferVars, pathVars,
                   doneVars, driven>>

\* The same, reaching the end of the row (EndLineJudge, EndTurnJudge).
DriveToEnd ==
    /\ InControl(Driving)
    /\ task_status' = Fetching
    /\ driven' = Append(driven, goal)
    /\ pc' = "fetch"
    /\ place' \in {Away} \cup (IF goal.k = Length[goal.path] THEN {End[goal.path]} ELSE {})
    /\ UNCHANGED <<linkVars, FB_IS_PAUSED, SelfTestResult, bufferVars, now_task,
                   TaskTotal, TaskCount, goal, doneVars>>

\* Mutant: the code in the receive buffer, not the task worked on.
DoneOfLink == t8266revbuf.id

DoneByte == IF taskseq \in Codes THEN taskseq ELSE NoCode

\* StopTask: the end of the path.  The buffers are emptied, a new self test is
\* asked for, the task's code is reported, and most tasks end in a pause.
StopTask ==
    /\ InControl(Stopping)
    /\ cangpsbuf2' = Empty
    /\ now_task' = Empty
    /\ task_status' = Idle
    /\ Task_Count' = 0
    /\ SelfTestResult' = 0
    /\ newAGVtaskover' = DoneByte
    /\ FB_IS_PAUSED' = (taskseq \notin NonStop)
    /\ pc' = "top"
    /\ UNCHANGED <<linkVars, AGVtasklimit, Checksum_Error, TaskTotal, TaskCount,
                   goal, taskseq, worldVars>>

\* Mutant: the stop is fetched in place of the last row.
AtLastRow == TaskCount = TaskTotal

AtEnd == TaskCount = TaskTotal + 1

\* GetTaskParameter, in the same pass after a path was taken or a row ended, or
\* in a later pass while the status stays 9: the next row, or the stop after
\* the last.  A row that has been cleared is a "Task data error": it is passed
\* over and the status stays as it is.
GetTaskParameter ==
    /\ pc = "fetch" \/ InControl(Fetching)
    /\ pc' = "top"
    /\ IF TaskCount > TaskTotal + 1
       THEN /\ task_status' = Idle
            /\ Task_Count' = 0
            /\ TaskTotal' = 0
            /\ UNCHANGED <<TaskCount, goal>>
       ELSE /\ TaskCount' = TaskCount + 1
            /\ IF AtEnd
               THEN task_status' = Stopping /\ UNCHANGED goal
               ELSE IF now_task[TaskCount] # NoRow
               THEN task_status' = Driving /\ goal' = now_task[TaskCount]
               ELSE UNCHANGED <<task_status, goal>>
            /\ UNCHANGED <<Task_Count, TaskTotal>>
    /\ UNCHANGED <<linkVars, FB_IS_PAUSED, SelfTestResult, AGVtasklimit,
                   Checksum_Error, cangpsbuf2, now_task, doneVars, worldVars>>

-----------------------------------------------------------------------------
Link == \/ \E c \in Published : taskCb(c)
        \/ OtherFrame
        \/ RestartBridge

Pass == \/ \E mode \in 0..3, stop, paused \in BOOLEAN, to \in Places :
              ReadSwitches(mode, stop, paused, to)
        \/ \E paused \in BOOLEAN : EnterAuto(paused)
        \/ SelfTest
        \/ ReadAgain
        \/ Hold
        \/ GetTaskSystem
        \/ DriveOn
        \/ DriveToEnd
        \/ StopTask
        \/ GetTaskParameter

Next == Link \/ Pass

Spec == Init /\ [][Next]_vars

-----------------------------------------------------------------------------
(* Properties *)

Buffer == [1..MaxRows -> Row \cup {NoRow}]

\* The types of the variables.
TypeOK ==
    /\ task_sequence_request \in Published \cup {NoCode}
    /\ g_last_task_id \in Published \cup {NoCode}
    /\ t8266revbuf \in [id : Published, switch : BOOLEAN] \cup {NoFrame}
    /\ pc \in {"top", "auto", "selftest", "drive", "control", "fetch"}
    /\ FB_IS_PAUSED \in BOOLEAN
    /\ SelfTestResult \in 0..2
    /\ AGVtasklimit \in 0..1
    /\ Checksum_Error \in 0..1
    /\ cangpsbuf2 \in Buffer
    /\ Task_Count \in 0..MaxRows
    /\ now_task \in Buffer
    /\ TaskTotal \in 0..MaxRows
    /\ TaskCount \in 0..(MaxRows + 2)
    /\ goal \in Row \cup {NoRow}
    /\ task_status \in {Idle, Driving, Stopping, Fetching}
    /\ taskseq \in Codes \cup {NoCode}
    /\ newAGVtaskover \in Codes \cup {NoCode}
    /\ place \in Places
    /\ driven \in Seq(Row)

\* Whatever frames, switches and stops came in between, a path that is about to
\* be taken is there from its first row to its last: no rows of another path
\* that was in the buffer before, none that has been cleared.
TakenWhole ==
    task_status = Idle /\ Task_Count > 0 =>
        \E c \in Codes : /\ Task_Count = Length[c]
                         /\ \A j \in 1..Task_Count :
                               cangpsbuf2[j] = [path |-> c, k |-> j]

\* The rows driven since a path was taken are the first rows of that one path,
\* in sequence and without a gap, and the row being driven is the next one.
DrivenInSequence(c) ==
    \A j \in 1..Len(driven) : driven[j] = [path |-> c, k |-> j]
OnePath ==
    \E c \in Codes \cup {NoCode} :
        /\ DrivenInSequence(c)
        /\ task_status = Driving => goal = [path |-> c, k |-> Len(driven) + 1]

\* The row counter never passes the stop: the vehicle comes to it after exactly
\* as many fetches as the path has rows, and the branch of GetTaskParameter for
\* a counter beyond it is not reached.
StopAfterLastRow ==
    /\ task_status = Fetching => TaskCount \in 1..(TaskTotal + 1)
    /\ task_status = Driving => TaskCount \in 2..(TaskTotal + 1)
    /\ task_status = Stopping => TaskCount = TaskTotal + 2

\* Nothing is reported as done by a vehicle that has not driven since it took
\* its path, or whose path was taken back by the emergency stop or by parking.
DoneAfterDriving ==
    [][newAGVtaskover' \notin {newAGVtaskover, NoCode} =>
         task_status = Stopping /\ driven # <<>>]_vars

\* Seen from the link the firmware is the abstract vehicle: its task is the one
\* published last, its done byte is raised for that task only.
V == INSTANCE Vehicle
AbstractVehicle == V!Spec

\* run.c says that what is finished is what is reported: the path of the code
\* reported was driven from its first row to its last.
DoneMeansDriven ==
    [][StopTask /\ newAGVtaskover' # NoCode =>
         driven = [j \in 1..Length[newAGVtaskover'] |->
                      [path |-> newAGVtaskover', k |-> j]]]_vars
================================================================================
