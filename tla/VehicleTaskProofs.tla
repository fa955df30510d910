--------------------------- MODULE VehicleTaskProofs ---------------------------
(***************************************************************************)
(* Proofs about VehicleTask: types, the whole path, the sequence of rows,   *)
(* the done byte, and the refinement of the abstract vehicle.               *)
(***************************************************************************)
EXTENDS VehicleTask, TLAPS

\* The frame in the receive buffer is the one sent last, or not a 'd' frame.
FrameIsLast == t8266revbuf.id \in {NoCode, task_sequence_request}

\* The path being driven has been cleared, or is there from end to end; the row
\* counter and the rows driven go together as long as it is there.
Following(c) ==
    /\ now_task # Empty =>
          /\ c \in Codes
          /\ TaskTotal = Length[c]
          /\ \A j \in 1..TaskTotal : now_task[j] = [path |-> c, k |-> j]
    /\ DrivenInSequence(c)
    /\ task_status = Driving =>
          /\ goal = [path |-> c, k |-> Len(driven) + 1]
          /\ now_task # Empty => TaskCount = Len(driven) + 2
    /\ task_status = Fetching /\ now_task # Empty => TaskCount = Len(driven) + 1

OnItsWay == \E c \in Codes \cup {NoCode} : Following(c)

\* Where the vehicle can be with a path it has taken.
Stage ==
    /\ task_status = Idle => now_task = Empty
    /\ task_status = Fetching /\ driven = <<>> =>
          pc = "fetch" /\ TaskCount = 1 /\ now_task # Empty
    /\ task_status \in {Fetching, Driving} => TaskTotal >= 1
    /\ task_status = Stopping => driven # <<>>
    /\ pc = "fetch" => task_status = Fetching

\* The inductive invariant.
Inv ==
    /\ TypeOK
    /\ FrameIsLast
    /\ TakenWhole
    /\ StopAfterLastRow
    /\ Stage
    /\ OnItsWay

-----------------------------------------------------------------------------
(* Operators *)

\* A cleared row is no row of any path.
LEMMA NoRowOut == NoRow \notin Row
BY VehicleTaskAssumption DEF NoRow, Row, NoCode

\* The cleared buffer is a buffer.
LEMMA EmptyTyped == Empty \in Buffer
BY DEF Empty, Buffer

\* A loaded path stands at the front of the buffer, whatever was there before.
LEMMA OverlayTyped ==
    ASSUME NEW buf \in Buffer, NEW c \in Codes
    PROVE  /\ Overlay(buf, c) \in Buffer
           /\ Length[c] \in 1..MaxRows
           /\ \A j \in 1..Length[c] : Overlay(buf, c)[j] = [path |-> c, k |-> j]
<1>1. Length[c] \in 1..MaxRows
  BY VehicleTaskAssumption
<1>2. ASSUME NEW j \in 1..MaxRows
      PROVE  [path |-> c, k |-> j] \in Row
  BY DEF Row
<1>3. Overlay(buf, c) \in Buffer
  BY <1>1, <1>2, VehicleTaskAssumption DEF Overlay, Buffer
<1>4. \A j \in 1..Length[c] : Overlay(buf, c)[j] = [path |-> c, k |-> j]
  BY <1>1, VehicleTaskAssumption DEF Overlay
<1> QED
  BY <1>1, <1>3, <1>4

\* Whatever arrives during a reading, the buffer holds the frame sent last or
\* one without a code.
LEMMA ArrivalTyped ==
    ASSUME TypeOK, FrameIsLast, Arrival
    PROVE  /\ task_sequence_request' \in Published \cup {NoCode}
           /\ g_last_task_id' \in Published \cup {NoCode}
           /\ t8266revbuf' \in [id : Published, switch : BOOLEAN] \cup {NoFrame}
           /\ FrameIsLast'
<1>1. CASE UNCHANGED linkVars
  BY <1>1 DEF TypeOK, FrameIsLast, linkVars
<1>2. CASE Replaced
  BY <1>2 DEF TypeOK, FrameIsLast, Replaced, NoFrame
<1>3. ASSUME NEW c \in Published, Sends(c)
      PROVE  /\ task_sequence_request' = c /\ g_last_task_id' = c
             /\ t8266revbuf' \in [id : Published, switch : BOOLEAN]
             /\ t8266revbuf'.id = c
  BY <1>3 DEF Sends
<1> QED
  BY <1>1, <1>2, <1>3 DEF Arrival, FrameIsLast

\* Reading the receive buffer keeps the types, and what the vehicle is doing.
LEMMA CommTyped ==
    ASSUME TypeOK, comm_path_trans
    PROVE  /\ taskseq' \in Codes \cup {NoCode}
           /\ cangpsbuf2' \in Buffer
           /\ Task_Count' \in 0..MaxRows
           /\ now_task' \in Buffer
           /\ now_task' \in {now_task, Empty}
           /\ SelfTestResult' \in 0..2
           /\ AGVtasklimit' \in 0..1
<1>1. CASE t8266revbuf.id \in Codes
  <2> DEFINE c == t8266revbuf.id
             buf == IF t8266revbuf'.switch THEN Empty ELSE cangpsbuf2
  <2>1. buf \in Buffer
    BY EmptyTyped DEF TypeOK
  <2>2. /\ Overlay(buf, c) \in Buffer
        /\ Length[c] \in 1..MaxRows
    BY <1>1, <2>1, OverlayTyped
  <2>3. /\ taskseq' \in Codes \cup {NoCode}
        /\ cangpsbuf2' \in {Overlay(buf, c), cangpsbuf2}
        /\ Task_Count' \in {Length[c], Task_Count}
        /\ now_task' \in {now_task, Empty}
        /\ SelfTestResult' \in {0, SelfTestResult}
        /\ AGVtasklimit' \in {1, AGVtasklimit}
    BY <1>1 DEF comm_path_trans, Limit
  <2> HIDE DEF c, buf
  <2> QED
    BY <2>2, <2>3, EmptyTyped, VehicleTaskAssumption DEF TypeOK
<1>2. CASE t8266revbuf.id \notin Codes
  BY <1>2 DEF comm_path_trans, TypeOK
<1> QED
  BY <1>1, <1>2

\* A path read from the receive buffer is read whole.
LEMMA CommWhole ==
    ASSUME TypeOK, TakenWhole, comm_path_trans, task_status' = task_status
    PROVE  TakenWhole'
<1>1. CASE t8266revbuf.id \in Codes
  <2> DEFINE c == t8266revbuf.id
             buf == IF t8266revbuf'.switch THEN Empty ELSE cangpsbuf2
  <2>1. buf \in Buffer
    BY EmptyTyped DEF TypeOK
  <2>2. \A j \in 1..Length[c] : Overlay(buf, c)[j] = [path |-> c, k |-> j]
    BY <1>1, <2>1, OverlayTyped
  <2>3. \/ cangpsbuf2' = Overlay(buf, c) /\ Task_Count' = Length[c]
        \/ cangpsbuf2' = cangpsbuf2 /\ Task_Count' = Task_Count
    BY <1>1 DEF comm_path_trans
  <2> HIDE DEF buf
  <2> QED
    BY <1>1, <2>2, <2>3 DEF TakenWhole
<1>2. CASE t8266revbuf.id \notin Codes
  BY <1>2 DEF comm_path_trans, TakenWhole
<1> QED
  BY <1>1, <1>2

-----------------------------------------------------------------------------
(* Type correctness *)

\* After power-up nothing is taken and nothing driven.
LEMMA InitInv == Init => Inv
<1> SUFFICES ASSUME Init PROVE Inv
  OBVIOUS
<1>1. TypeOK
  <2>1. 0 \in 0..MaxRows /\ 0 \in 0..(MaxRows + 2)
    BY VehicleTaskAssumption
  <2>2. <<>> \in Seq(Row)
    OBVIOUS
  <2>3. /\ cangpsbuf2 \in Buffer /\ now_task \in Buffer
        /\ driven \in Seq(Row)
        /\ Task_Count \in 0..MaxRows /\ TaskTotal \in 0..MaxRows
        /\ TaskCount \in 0..(MaxRows + 2)
    BY <2>1, <2>2, EmptyTyped DEF Init
  <2>4. /\ pc \in {"top", "auto", "selftest", "drive", "control", "fetch"}
        /\ SelfTestResult \in 0..2 /\ AGVtasklimit \in 0..1 /\ Checksum_Error \in 0..1
        /\ task_status \in {Idle, Driving, Stopping, Fetching}
    BY DEF Init
  <2>5. /\ FB_IS_PAUSED \in BOOLEAN
        /\ task_sequence_request \in Published \cup {NoCode}
        /\ g_last_task_id \in Published \cup {NoCode}
        /\ t8266revbuf \in [id : Published, switch : BOOLEAN] \cup {NoFrame}
        /\ goal \in Row \cup {NoRow}
    BY DEF Init
  <2>6. /\ taskseq \in Codes \cup {NoCode}
        /\ newAGVtaskover \in Codes \cup {NoCode}
        /\ place \in Places
    BY DEF Init
  <2> QED
    BY <2>3, <2>4, <2>5, <2>6 DEF TypeOK
<1>2. FrameIsLast /\ TakenWhole /\ StopAfterLastRow /\ Stage
  BY DEF Init, FrameIsLast, TakenWhole, StopAfterLastRow, Stage, NoFrame, NoCode,
     Idle, Driving, Stopping, Fetching
<1>3. Following(NoCode)
  BY DEF Init, Following, DrivenInSequence, Idle, Driving, Fetching
<1>4. OnItsWay
  BY <1>3 DEF OnItsWay
<1> QED
  BY <1>1, <1>2, <1>4 DEF Inv

\* Every step keeps the types, and the row counter inside the buffers.
LEMMA TypeStep == Inv /\ [Next]_vars => TypeOK'
<1> SUFFICES ASSUME Inv, [Next]_vars PROVE TypeOK'
  OBVIOUS
<1> USE DEF Inv
<1>1. ASSUME NEW c \in Published, taskCb(c) PROVE TypeOK'
  BY <1>1 DEF taskCb, Sends, TypeOK, bufferVars, pathVars, doneVars, worldVars, Buffer
<1>2. CASE OtherFrame
  BY <1>2 DEF OtherFrame, Replaced, TypeOK, bufferVars, pathVars, doneVars, worldVars, Buffer
<1>3. CASE RestartBridge
  BY <1>3 DEF RestartBridge, TypeOK, bufferVars, pathVars, doneVars, worldVars, Buffer
<1>4. ASSUME NEW mode \in 0..3, NEW stop \in BOOLEAN, NEW paused \in BOOLEAN,
             NEW to \in Places, ReadSwitches(mode, stop, paused, to)
      PROVE  TypeOK'
  <2>1. /\ cangpsbuf2' \in Buffer /\ now_task' \in Buffer
        /\ Task_Count' \in 0..MaxRows /\ TaskTotal' \in 0..MaxRows
        /\ TaskCount' \in 0..(MaxRows + 2)
        /\ task_status' \in {Idle, Driving, Stopping, Fetching}
        /\ AGVtasklimit' \in 0..1 /\ Checksum_Error' \in 0..1
        /\ goal' \in Row \cup {NoRow}
    BY <1>4, EmptyTyped, VehicleTaskAssumption DEF ReadSwitches, RevokeControl, TypeOK,
       bufferVars, pathVars
  <2>2. /\ pc' \in {"top", "auto", "selftest", "drive", "control", "fetch"}
        /\ FB_IS_PAUSED' \in BOOLEAN
        /\ SelfTestResult' \in 0..2
        /\ taskseq' \in Codes \cup {NoCode}
        /\ newAGVtaskover' \in Codes \cup {NoCode}
        /\ place' \in Places
        /\ driven' \in Seq(Row)
    BY <1>4 DEF ReadSwitches, TypeOK
  <2> QED
    BY <1>4, <2>1, <2>2 DEF ReadSwitches, TypeOK, linkVars
<1>5. ASSUME NEW paused \in BOOLEAN, EnterAuto(paused) PROVE TypeOK'
  <2>1. CASE SelfTestResult = 0
    <3>1. comm_path_trans /\ Arrival
      BY <1>5, <2>1 DEF EnterAuto, comm_path_trans
    <3> QED
      BY <1>5, <2>1, <3>1, ArrivalTyped, CommTyped DEF EnterAuto, TypeOK, commUnchanged,
         worldVars
  <2>2. CASE SelfTestResult # 0
    BY <1>5, <2>2 DEF EnterAuto, TypeOK, commUnchanged, linkVars, worldVars
  <2> QED
    BY <2>1, <2>2
<1>6. CASE SelfTest
  BY <1>6 DEF SelfTest, StartPositionTest, TypeOK, linkVars, pathVars, doneVars,
     worldVars
<1>7. CASE ReadAgain
  <2>1. comm_path_trans /\ Arrival
    BY <1>7 DEF ReadAgain, comm_path_trans
  <2> QED
    BY <1>7, <2>1, ArrivalTyped, CommTyped DEF ReadAgain, TypeOK, commUnchanged, worldVars
<1>8. CASE Hold
  BY <1>8 DEF Hold, TypeOK, linkVars, bufferVars, pathVars, doneVars, worldVars
<1>9. CASE GetTaskSystem
  <2>1. /\ cangpsbuf2' \in Buffer /\ now_task' \in Buffer
        /\ TaskTotal' \in 0..MaxRows /\ TaskCount' \in 0..(MaxRows + 2)
        /\ task_status' \in {Idle, Driving, Stopping, Fetching}
        /\ Checksum_Error' \in 0..1
        /\ driven' \in Seq(Row)
        /\ pc' \in {"top", "auto", "selftest", "drive", "control", "fetch"}
    <3>1. [j \in 1..MaxRows |-> IF j <= Task_Count THEN cangpsbuf2[j] ELSE NoRow] \in Buffer
      BY DEF TypeOK, Buffer
    <3>2. CASE Task_Count = 0
      BY <1>9, <3>2, EmptyTyped, VehicleTaskAssumption DEF GetTaskSystem, TypeOK
    <3>3. CASE Task_Count # 0
      <4>1. 1 \in 0..(MaxRows + 2) /\ <<>> \in Seq(Row)
        BY VehicleTaskAssumption
      <4>2. now_task' \in Buffer /\ cangpsbuf2' \in Buffer
        BY <1>9, <3>1, <3>3, EmptyTyped DEF GetTaskSystem
      <4>3. /\ TaskTotal' = Task_Count /\ TaskCount' = 1 /\ Checksum_Error' = 0
            /\ task_status' = Fetching /\ driven' = <<>> /\ pc' = "fetch"
        BY <1>9, <3>3 DEF GetTaskSystem, FirstRow
      <4> QED
        BY <4>1, <4>2, <4>3 DEF TypeOK
    <3> QED
      BY <3>2, <3>3
  <2> QED
    BY <1>9, <2>1 DEF GetTaskSystem, TypeOK, linkVars, doneVars
<1>10. CASE DriveOn
  BY <1>10 DEF DriveOn, TypeOK, Places, linkVars, bufferVars, pathVars, doneVars
<1>11. CASE DriveToEnd
  <2>1. goal \in Row
    BY <1>11, NoRowOut DEF DriveToEnd, InControl, OnItsWay, Following, Row, TypeOK,
       NoRow, NoCode
  <2>2. driven' \in Seq(Row)
    BY <1>11, <2>1 DEF DriveToEnd, TypeOK
  <2>3. End[goal.path] \in Places /\ Away \in Places
    BY <2>1, VehicleTaskAssumption DEF Places, Row
  <2> QED
    BY <1>11, <2>2, <2>3 DEF DriveToEnd, TypeOK, linkVars, bufferVars, doneVars
<1>12. CASE StopTask
  BY <1>12, EmptyTyped, VehicleTaskAssumption DEF StopTask, DoneByte, TypeOK, linkVars,
     worldVars
<1>13. CASE GetTaskParameter
  <2>1. task_status = Fetching /\ TaskCount \in 1..(TaskTotal + 1)
    BY <1>13 DEF GetTaskParameter, InControl, Stage, StopAfterLastRow
  <2>2. /\ TaskCount' = TaskCount + 1
        /\ UNCHANGED <<Task_Count, TaskTotal>>
        /\ task_status' \in {Stopping, Driving, task_status}
    BY <1>13, <2>1 DEF GetTaskParameter, TypeOK
  <2>3. goal' \in Row \cup {NoRow}
    <3>1. CASE AtEnd
      BY <1>13, <2>1, <3>1 DEF GetTaskParameter, TypeOK
    <3>2. CASE ~AtEnd
      <4>1. TaskCount \in 1..MaxRows
        BY <2>1, <3>2, VehicleTaskAssumption DEF AtEnd, TypeOK
      <4>2. now_task[TaskCount] \in Row \cup {NoRow}
        BY <4>1 DEF TypeOK, Buffer
      <4> QED
        BY <1>13, <2>1, <3>2, <4>2 DEF GetTaskParameter, TypeOK
    <3> QED
      BY <3>1, <3>2
  <2> QED
    <3>1. TaskCount' \in 0..(MaxRows + 2)
      BY <2>1, <2>2, VehicleTaskAssumption DEF TypeOK
    <3> QED
      BY <1>13, <2>2, <2>3, <3>1 DEF GetTaskParameter, TypeOK, linkVars, doneVars,
         worldVars
<1>14. CASE UNCHANGED vars
  BY <1>14 DEF vars, TypeOK, linkVars, bufferVars, pathVars, doneVars, worldVars
<1> QED
  BY <1>1, <1>2, <1>3, <1>4, <1>5, <1>6, <1>7, <1>8, <1>9, <1>10, <1>11, <1>12,
     <1>13, <1>14 DEF Next, Link, Pass

\* What most actions leave alone.
SamePath == UNCHANGED <<TaskTotal, TaskCount, goal, task_status, driven>>

\* Steps in which the path goes on as it is, or is cleared under way.
LEMMA SamePathStep ==
    ASSUME Inv, SamePath, now_task' \in {now_task, Empty}, pc # "fetch", pc' # "fetch"
    PROVE  StopAfterLastRow' /\ Stage' /\ OnItsWay'
<1>1. StopAfterLastRow'
  BY DEF Inv, SamePath, StopAfterLastRow
<1>2. Stage'
  BY DEF Inv, SamePath, Stage, Idle, Fetching
<1>3. PICK c \in Codes \cup {NoCode} : Following(c)
  BY DEF Inv, OnItsWay
<1>4. DrivenInSequence(c)'
  BY <1>3 DEF Following, SamePath, DrivenInSequence
<1>5. Empty' = Empty
  BY DEF Empty
<1>6. Following(c)'
  BY <1>3, <1>4, <1>5 DEF SamePath, Following
<1> QED
  BY <1>1, <1>2, <1>6 DEF OnItsWay

\* The same for steps outside the main loop, which may come between taking a
\* path and fetching its first row.
LEMMA StayStep ==
    ASSUME Inv, SamePath, UNCHANGED <<now_task, pc>>
    PROVE  StopAfterLastRow' /\ Stage' /\ OnItsWay'
<1>1. StopAfterLastRow'
  BY DEF Inv, SamePath, StopAfterLastRow
<1>2. Stage'
  BY DEF Inv, SamePath, Stage, Empty
<1>3. PICK c \in Codes \cup {NoCode} : Following(c)
  BY DEF Inv, OnItsWay
<1>4. Following(c)'
  BY <1>3 DEF Following, SamePath, DrivenInSequence, Empty
<1> QED
  BY <1>1, <1>2, <1>4 DEF OnItsWay

\* The link.
LEMMA LinkStep == Inv /\ Link => Inv'
<1> SUFFICES ASSUME Inv, Link PROVE Inv'
  OBVIOUS
<1>1. TypeOK'
  BY TypeStep DEF Next
<1>2. UNCHANGED <<pc, SelfTestResult, bufferVars, pathVars, worldVars>>
  BY DEF Link, taskCb, OtherFrame, RestartBridge
<1>3. FrameIsLast'
  BY DEF Inv, Link, taskCb, Sends, OtherFrame, Replaced, RestartBridge, FrameIsLast,
     NoFrame
<1>4. TakenWhole'
  BY <1>2 DEF Inv, TakenWhole, bufferVars, pathVars
<1>5. SamePath /\ UNCHANGED <<now_task, pc>>
  BY <1>2 DEF SamePath, pathVars, worldVars
<1> QED
  BY <1>1, <1>3, <1>4, <1>5, StayStep DEF Inv

\* The start of a pass: nothing, or everything about the path is forgotten.
LEMMA SwitchesStep ==
    ASSUME Inv, NEW mode \in 0..3, NEW stop \in BOOLEAN, NEW paused \in BOOLEAN,
           NEW to \in Places, ReadSwitches(mode, stop, paused, to)
    PROVE  FrameIsLast' /\ TakenWhole' /\ StopAfterLastRow' /\ Stage' /\ OnItsWay'
<1>1. FrameIsLast'
  BY DEF Inv, ReadSwitches, FrameIsLast, linkVars
<1>2. pc = "top" /\ pc' # "fetch"
  BY DEF ReadSwitches
<1>3. CASE Revoked(mode, stop)
  <2>1. /\ task_status' = Idle /\ Task_Count' = 0 /\ now_task' = Empty
        /\ driven' = <<>>
    BY <1>3 DEF ReadSwitches, Revoked, RevokeControl
  <2>2. TakenWhole' /\ StopAfterLastRow' /\ Stage'
    BY <1>2, <2>1 DEF TakenWhole, StopAfterLastRow, Stage, Idle, Fetching, Driving,
       Stopping, Empty
  <2>3. Following(NoCode)'
    BY <2>1 DEF Following, DrivenInSequence, Idle, Fetching, Driving, Empty
  <2> QED
    BY <1>1, <2>2, <2>3 DEF OnItsWay
<1>4. CASE ~Revoked(mode, stop)
  <2>1. UNCHANGED <<bufferVars, pathVars, driven>>
    BY <1>4 DEF ReadSwitches, Revoked
  <2>2. TakenWhole'
    BY <2>1 DEF Inv, TakenWhole, bufferVars, pathVars
  <2>3. SamePath /\ now_task' = now_task
    BY <2>1 DEF SamePath, pathVars
  <2> QED
    BY <1>1, <1>2, <2>2, <2>3, SamePathStep
<1> QED
  BY <1>3, <1>4

\* Reading the receive buffer may clear the path, never change its course.
LEMMA CommStep ==
    ASSUME Inv, comm_path_trans, commUnchanged' = commUnchanged,
           pc # "fetch", pc' # "fetch"
    PROVE  FrameIsLast' /\ TakenWhole' /\ StopAfterLastRow' /\ Stage' /\ OnItsWay'
<1>1. SamePath /\ FrameIsLast'
  <2>1. Arrival
    BY DEF comm_path_trans
  <2> QED
    BY <2>1, ArrivalTyped DEF Inv, commUnchanged, SamePath, worldVars
<1>2. now_task' \in {now_task, Empty}
  BY CommTyped DEF Inv
<1>3. TakenWhole'
  BY <1>1, CommWhole DEF Inv, SamePath
<1> QED
  BY <1>1, <1>2, <1>3, SamePathStep

\* Entering automatic mode: the buffer is read, or nothing changes.
LEMMA AutoStep ==
    ASSUME Inv, NEW paused \in BOOLEAN, EnterAuto(paused)
    PROVE  FrameIsLast' /\ TakenWhole' /\ StopAfterLastRow' /\ Stage' /\ OnItsWay'
<1>1. pc # "fetch" /\ pc' # "fetch" /\ commUnchanged' = commUnchanged
  BY DEF EnterAuto
<1>2. CASE SelfTestResult = 0
  BY <1>1, <1>2, CommStep DEF EnterAuto
<1>3. CASE SelfTestResult # 0
  <2>1. /\ SamePath
        /\ UNCHANGED <<now_task, cangpsbuf2, Task_Count, t8266revbuf,
                       task_sequence_request>>
    BY <1>1, <1>3 DEF EnterAuto, commUnchanged, SamePath, linkVars, worldVars
  <2>2. FrameIsLast' /\ TakenWhole'
    BY <2>1 DEF Inv, FrameIsLast, TakenWhole, SamePath
  <2> QED
    BY <1>1, <2>1, <2>2, SamePathStep
<1> QED
  BY <1>2, <1>3

\* Taking a path: it is there from end to end, and nothing of it is driven yet.
LEMMA TakeStep ==
    ASSUME Inv, GetTaskSystem
    PROVE  FrameIsLast' /\ TakenWhole' /\ StopAfterLastRow' /\ Stage' /\ OnItsWay'
<1>1. task_status = Idle /\ FrameIsLast'
  BY DEF Inv, GetTaskSystem, InControl, FrameIsLast, linkVars
<1>2. CASE Task_Count = 0
  <2>1. /\ task_status' = Idle /\ Task_Count' = 0 /\ now_task' = Empty
        /\ driven' = driven /\ pc' = "top"
    BY <1>1, <1>2 DEF GetTaskSystem
  <2>2. TakenWhole' /\ StopAfterLastRow' /\ Stage'
    BY <2>1 DEF TakenWhole, StopAfterLastRow, Stage, Idle, Fetching, Driving,
       Stopping, Empty
  <2>3. PICK c \in Codes \cup {NoCode} : Following(c)
    BY DEF Inv, OnItsWay
  <2>4. Following(c)'
    BY <2>1, <2>3 DEF Following, DrivenInSequence, Idle, Fetching, Driving, Empty
  <2> QED
    BY <1>1, <2>2, <2>4 DEF OnItsWay
<1>3. CASE Task_Count # 0
  <2>1. PICK c \in Codes : /\ Task_Count = Length[c]
                           /\ \A j \in 1..Task_Count :
                                 cangpsbuf2[j] = [path |-> c, k |-> j]
    BY <1>1, <1>3 DEF Inv, TakenWhole, TypeOK
  <2>2. Task_Count \in 1..MaxRows
    BY <2>1, VehicleTaskAssumption
  <2>3. /\ TaskTotal' = Task_Count /\ TaskCount' = 1
        /\ now_task' = [j \in 1..MaxRows |->
                           IF j <= Task_Count THEN cangpsbuf2[j] ELSE NoRow]
        /\ task_status' = Fetching /\ driven' = <<>> /\ pc' = "fetch"
    BY <1>3 DEF GetTaskSystem, FirstRow
  <2>4. \A j \in 1..Task_Count : now_task'[j] = [path |-> c, k |-> j]
    BY <2>1, <2>2, <2>3, VehicleTaskAssumption
  <2>5. now_task' # Empty
    <3>1. now_task'[1] = [path |-> c, k |-> 1]
      BY <2>2, <2>4
    <3>2. [path |-> c, k |-> 1] # NoRow
      BY DEF NoRow
    <3>3. Empty[1] = NoRow
      BY <2>2, VehicleTaskAssumption DEF Empty
    <3> QED
      BY <3>1, <3>2, <3>3
  <2>6. TakenWhole' /\ StopAfterLastRow' /\ Stage'
    BY <2>2, <2>3, <2>5, VehicleTaskAssumption DEF TakenWhole, StopAfterLastRow, Stage, Idle, Fetching,
       Driving, Stopping, Empty
  <2>7. Following(c)'
    BY <2>1, <2>3, <2>4 DEF Following, DrivenInSequence, Fetching, Driving, Empty
  <2> QED
    BY <1>1, <2>6, <2>7 DEF OnItsWay
<1> QED
  BY <1>2, <1>3

\* A step along a row, or its end: the row driven joins the rows driven before.
LEMMA DriveStep ==
    ASSUME Inv, DriveToEnd
    PROVE  FrameIsLast' /\ TakenWhole' /\ StopAfterLastRow' /\ Stage' /\ OnItsWay'
<1>1. /\ task_status = Driving /\ task_status' = Fetching /\ pc' = "fetch"
      /\ driven' = Append(driven, goal)
      /\ UNCHANGED <<now_task, TaskTotal, TaskCount, goal, linkVars>>
  BY DEF DriveToEnd, InControl
<1>2. FrameIsLast' /\ TakenWhole'
  BY <1>1 DEF Inv, FrameIsLast, TakenWhole, linkVars, Idle, Fetching
<1>3. TaskCount \in 2..(TaskTotal + 1) /\ TaskTotal >= 1 /\ TaskTotal \in Nat
  BY <1>1, VehicleTaskAssumption DEF Inv, StopAfterLastRow, Stage, TypeOK
<1>4. StopAfterLastRow'
  BY <1>1, <1>3 DEF StopAfterLastRow, Idle, Driving, Stopping, Fetching
<1>5. goal \in Row /\ driven \in Seq(Row)
  BY <1>1, NoRowOut DEF Inv, OnItsWay, Following, Row, TypeOK, NoRow, NoCode
<1>6. driven' \in Seq(Row) /\ Len(driven') = Len(driven) + 1 /\ driven' # <<>>
  BY <1>1, <1>5
<1>7. Stage'
  BY <1>1, <1>3, <1>6 DEF Stage, Idle, Driving, Stopping, Fetching
<1>8. PICK c \in Codes \cup {NoCode} : Following(c)
  BY DEF Inv, OnItsWay
<1>9. DrivenInSequence(c)'
  <2>1. goal = [path |-> c, k |-> Len(driven) + 1]
    BY <1>1, <1>8 DEF Following
  <2>2. ASSUME NEW j \in 1..(Len(driven) + 1)
        PROVE  driven'[j] = [path |-> c, k |-> j]
    <3>1. CASE j = Len(driven) + 1
      BY <1>1, <1>5, <2>1, <3>1
    <3>2. CASE j # Len(driven) + 1
      <4>1. j \in 1..Len(driven)
        BY <1>5, <3>2
      <4>2. driven'[j] = driven[j]
        BY <1>1, <1>5, <4>1
      <4> QED
        BY <1>8, <4>1, <4>2 DEF Following, DrivenInSequence
    <3> QED
      BY <3>1, <3>2
  <2> QED
    BY <1>6, <2>2 DEF DrivenInSequence
<1>10. now_task' # Empty =>
          /\ c \in Codes
          /\ TaskTotal' = Length[c]
          /\ \A j \in 1..TaskTotal' : now_task'[j] = [path |-> c, k |-> j]
          /\ TaskCount' = Len(driven') + 1
  BY <1>1, <1>3, <1>5, <1>6, <1>8 DEF Following
<1>11. Following(c)'
  BY <1>1, <1>9, <1>10 DEF Following, Fetching, Driving, Empty
<1> QED
  BY <1>2, <1>4, <1>7, <1>11 DEF OnItsWay

\* The stop: the path is over, the buffer empty.
LEMMA StopStep ==
    ASSUME Inv, StopTask
    PROVE  FrameIsLast' /\ TakenWhole' /\ StopAfterLastRow' /\ Stage' /\ OnItsWay'
<1>1. /\ task_status' = Idle /\ Task_Count' = 0 /\ now_task' = Empty
      /\ driven' = driven /\ pc' = "top" /\ UNCHANGED linkVars
  BY DEF StopTask, worldVars
<1>2. FrameIsLast'
  BY <1>1 DEF Inv, FrameIsLast, linkVars
<1>3. TakenWhole' /\ StopAfterLastRow' /\ Stage'
  BY <1>1 DEF TakenWhole, StopAfterLastRow, Stage, Idle, Fetching, Driving, Stopping,
     Empty
<1>4. PICK c \in Codes \cup {NoCode} : Following(c)
  BY DEF Inv, OnItsWay
<1>5. Following(c)'
  BY <1>1, <1>4 DEF Following, DrivenInSequence, Idle, Fetching, Driving, Empty
<1> QED
  BY <1>2, <1>3, <1>5 DEF OnItsWay

\* Fetching: the next row, a row that has been cleared, or the stop.
LEMMA FetchStep ==
    ASSUME Inv, GetTaskParameter
    PROVE  FrameIsLast' /\ TakenWhole' /\ StopAfterLastRow' /\ Stage' /\ OnItsWay'
<1>1. task_status = Fetching
  BY DEF Inv, GetTaskParameter, InControl, Stage
<1>2. /\ TaskCount \in 1..(TaskTotal + 1) /\ TaskTotal >= 1
      /\ TaskTotal \in 0..MaxRows /\ MaxRows \in Nat /\ driven \in Seq(Row)
  BY <1>1, VehicleTaskAssumption DEF Inv, StopAfterLastRow, Stage, TypeOK
<1>3. /\ pc' = "top" /\ TaskCount' = TaskCount + 1
      /\ UNCHANGED <<Task_Count, TaskTotal, now_task, cangpsbuf2, driven, linkVars>>
  BY <1>2 DEF GetTaskParameter, worldVars
<1>4. PICK c \in Codes \cup {NoCode} : Following(c)
  BY DEF Inv, OnItsWay
<1>5. FrameIsLast'
  BY <1>3 DEF Inv, FrameIsLast, linkVars
<1>6. /\ DrivenInSequence(c)'
      /\ Empty' = Empty
      /\ now_task' # Empty =>
            /\ c \in Codes
            /\ TaskTotal' = Length[c]
            /\ \A j \in 1..TaskTotal' : now_task'[j] = [path |-> c, k |-> j]
            /\ TaskCount = Len(driven) + 1
  BY <1>1, <1>3, <1>4 DEF Following, DrivenInSequence, Empty
<1>7. CASE AtEnd
  <2>1. task_status' = Stopping /\ UNCHANGED goal /\ TaskCount = TaskTotal + 1
    BY <1>2, <1>7 DEF GetTaskParameter, AtEnd
  <2>2. driven # <<>>
    BY <1>1, <1>2, <2>1 DEF Inv, Stage
  <2>3. TakenWhole' /\ StopAfterLastRow' /\ Stage'
    BY <1>2, <1>3, <2>1, <2>2 DEF TakenWhole, StopAfterLastRow, Stage, Idle, Driving,
       Stopping, Fetching
  <2>4. Following(c)'
    BY <1>6, <2>1 DEF Following, Stopping, Driving, Fetching
  <2> QED
    BY <1>5, <2>3, <2>4 DEF OnItsWay
<1>8. CASE ~AtEnd /\ now_task[TaskCount] # NoRow
  <2>1. TaskCount \in 1..TaskTotal /\ TaskCount \in 1..MaxRows
    BY <1>2, <1>8 DEF AtEnd
  <2>2. task_status' = Driving /\ goal' = now_task[TaskCount]
    BY <1>2, <1>8 DEF GetTaskParameter
  <2>3. now_task # Empty
    BY <1>8, <2>1 DEF Empty
  <2>4. TaskCount = Len(driven) + 1 /\ now_task[TaskCount] = [path |-> c, k |-> TaskCount]
    BY <1>1, <1>4, <2>1, <2>3 DEF Following
  <2>5. /\ goal' = [path |-> c, k |-> Len(driven') + 1]
        /\ TaskCount' = Len(driven') + 2
    BY <1>2, <1>3, <2>2, <2>4
  <2>6. TakenWhole' /\ StopAfterLastRow' /\ Stage'
    BY <1>2, <1>3, <2>1, <2>2 DEF TakenWhole, StopAfterLastRow, Stage, Idle, Driving,
       Stopping, Fetching
  <2>7. Following(c)'
    BY <1>6, <2>2, <2>5 DEF Following, Driving, Fetching
  <2> QED
    BY <1>5, <2>6, <2>7 DEF OnItsWay
<1>9. CASE ~AtEnd /\ now_task[TaskCount] = NoRow
  <2>1. TaskCount \in 1..TaskTotal
    BY <1>2, <1>9 DEF AtEnd
  <2>2. task_status' = Fetching
    BY <1>1, <1>2, <1>9 DEF GetTaskParameter
  <2>3. now_task = Empty
    <3>1. SUFFICES ASSUME now_task # Empty PROVE FALSE
      OBVIOUS
    <3>2. now_task[TaskCount] = [path |-> c, k |-> TaskCount]
      BY <1>1, <1>4, <2>1, <3>1 DEF Following
    <3>3. NoRow.k = 0 /\ TaskCount # 0
      BY <1>2, <2>1 DEF NoRow
    <3> QED
      BY <1>9, <3>2, <3>3
  <2>4. driven # <<>>
    BY <1>1, <2>3 DEF Inv, Stage
  <2>5. TakenWhole' /\ StopAfterLastRow' /\ Stage'
    BY <1>2, <1>3, <2>1, <2>2, <2>4 DEF TakenWhole, StopAfterLastRow, Stage, Idle,
       Driving, Stopping, Fetching
  <2>6. now_task' = Empty
    BY <1>3, <2>3
  <2>7. Following(c)'
    BY <1>6, <2>2, <2>6 DEF Following, Driving, Fetching
  <2> QED
    BY <1>5, <2>5, <2>7 DEF OnItsWay
<1> QED
  BY <1>7, <1>8, <1>9

-----------------------------------------------------------------------------
(* The invariant *)

\* The invariant is inductive: one step per action of the main loop.
LEMMA InvStep == Inv /\ [Next]_vars => Inv'
<1> SUFFICES ASSUME Inv, [Next]_vars PROVE Inv'
  OBVIOUS
<1>1. TypeOK'
  BY TypeStep
<1>2. CASE Link
  BY <1>2, LinkStep
<1>3. ASSUME NEW mode \in 0..3, NEW stop \in BOOLEAN, NEW paused \in BOOLEAN,
             NEW to \in Places, ReadSwitches(mode, stop, paused, to)
      PROVE  Inv'
  BY <1>1, <1>3, SwitchesStep DEF Inv
<1>4. ASSUME NEW paused \in BOOLEAN, EnterAuto(paused) PROVE Inv'
  BY <1>1, <1>4, AutoStep DEF Inv
<1>5. CASE SelfTest \/ Hold \/ DriveOn
  <2>1. /\ UNCHANGED <<linkVars, pathVars, driven, cangpsbuf2, Task_Count>>
        /\ pc # "fetch" /\ pc' # "fetch"
    BY <1>5 DEF SelfTest, Hold, DriveOn, InControl, bufferVars, worldVars
  <2>2. FrameIsLast' /\ TakenWhole'
    BY <2>1 DEF Inv, FrameIsLast, TakenWhole, linkVars, pathVars
  <2>3. SamePath /\ now_task' = now_task
    BY <2>1 DEF SamePath, pathVars
  <2> QED
    BY <1>1, <2>1, <2>2, <2>3, SamePathStep DEF Inv
<1>6. CASE ReadAgain
  <2>1. pc # "fetch" /\ pc' # "fetch" /\ comm_path_trans /\ commUnchanged' = commUnchanged
    BY <1>6 DEF ReadAgain
  <2> QED
    BY <1>1, <2>1, CommStep DEF Inv
<1>7. CASE GetTaskSystem
  BY <1>1, <1>7, TakeStep DEF Inv
<1>8. CASE DriveToEnd
  BY <1>1, <1>8, DriveStep DEF Inv
<1>9. CASE StopTask
  BY <1>1, <1>9, StopStep DEF Inv
<1>10. CASE GetTaskParameter
  BY <1>1, <1>10, FetchStep DEF Inv
<1>11. CASE UNCHANGED vars
  <2>1. SamePath /\ UNCHANGED <<now_task, pc>>
    BY <1>11 DEF vars, SamePath, pathVars, worldVars
  <2>2. FrameIsLast' /\ TakenWhole'
    BY <1>11 DEF Inv, FrameIsLast, TakenWhole, vars, linkVars, bufferVars, pathVars
  <2> QED
    BY <1>1, <2>1, <2>2, StayStep DEF Inv
<1> QED
  BY <1>2, <1>3, <1>4, <1>5, <1>6, <1>7, <1>8, <1>9, <1>10, <1>11 DEF Next, Pass

\* Between any two frames and any two parts of a pass the path taken, the row
\* counter and the rows driven agree.
THEOREM InvAlways == Spec => []Inv
BY InitInv, InvStep, PTL DEF Spec

\* The variables of the main loop keep their types; the row counter in
\* particular stays inside the path buffers.
THEOREM VehicleTypeCorrect == Spec => []TypeOK
<1>1. Inv => TypeOK
  BY DEF Inv
<1> QED
  BY <1>1, InvAlways, PTL

\* A path about to be taken is in the buffer from its first row to its last,
\* whatever frames, switches and stops came before.
THEOREM TakenWholeAlways == Spec => []TakenWhole
<1>1. Inv => TakenWhole
  BY DEF Inv
<1> QED
  BY <1>1, InvAlways, PTL

\* What is driven between taking a path and taking the next is one path, from
\* its first row on, in sequence.
THEOREM OnePathAlways == Spec => []OnePath
<1>1. Inv => OnePath
  BY DEF Inv, OnItsWay, Following, OnePath
<1> QED
  BY <1>1, InvAlways, PTL

\* The row counter never passes the stop.
THEOREM StopAfterLastRowAlways == Spec => []StopAfterLastRow
<1>1. Inv => StopAfterLastRow
  BY DEF Inv
<1> QED
  BY <1>1, InvAlways, PTL

-----------------------------------------------------------------------------
(* The done byte *)

\* Nothing is reported as done by a vehicle that has not driven since it took
\* its path, or whose path was taken back.
THEOREM DoneAfterDrivingCorrect == Spec => DoneAfterDriving
<1>1. Inv /\ [Next]_vars =>
         [newAGVtaskover' \notin {newAGVtaskover, NoCode} =>
             task_status = Stopping /\ driven # <<>>]_vars
  <2> SUFFICES ASSUME Inv, Next, newAGVtaskover' \notin {newAGVtaskover, NoCode}
               PROVE  task_status = Stopping /\ driven # <<>>
    BY DEF vars
  <2>1. CASE Link
    BY <2>1 DEF Link, taskCb, OtherFrame, RestartBridge, doneVars
  <2>2. ASSUME NEW mode \in 0..3, NEW stop \in BOOLEAN, NEW paused \in BOOLEAN,
               NEW to \in Places, ReadSwitches(mode, stop, paused, to)
        PROVE  FALSE
    BY <2>2 DEF ReadSwitches
  <2>3. ASSUME NEW paused \in BOOLEAN, EnterAuto(paused) PROVE FALSE
    BY <2>3 DEF EnterAuto, commUnchanged
  <2>4. CASE SelfTest \/ ReadAgain \/ Hold \/ GetTaskSystem \/ DriveOn \/ DriveToEnd
             \/ GetTaskParameter
    BY <2>4 DEF SelfTest, ReadAgain, commUnchanged, Hold, GetTaskSystem, DriveOn,
       DriveToEnd, GetTaskParameter, doneVars
  <2>5. CASE StopTask
    BY <2>5 DEF StopTask, InControl, Inv, Stage
  <2> QED
    BY <2>1, <2>2, <2>3, <2>4, <2>5 DEF Next, Pass
<1> QED
  BY <1>1, InvAlways, PTL DEF Spec, DoneAfterDriving

-----------------------------------------------------------------------------
(* The abstract vehicle *)

\* A reading of the receive buffer takes up the task published last, or none.
LEMMA CommReceives ==
    ASSUME FrameIsLast, comm_path_trans, commUnchanged' = commUnchanged
    PROVE  V!Receive \/ V!Publish \/ UNCHANGED V!vehicle
<1>1. /\ UNCHANGED newAGVtaskover
      /\ \/ UNCHANGED task_sequence_request
         \/ task_sequence_request' \in Published
  BY DEF commUnchanged, comm_path_trans, Arrival, Replaced, Sends, linkVars
<1>2. CASE t8266revbuf.id \in Codes
  <2>1. t8266revbuf.id = task_sequence_request
    BY <1>2, VehicleTaskAssumption DEF FrameIsLast, NoCode
  <2> QED
    BY <1>1, <1>2, <2>1 DEF comm_path_trans, V!Receive
<1>3. CASE t8266revbuf.id \notin Codes
  <2>1. UNCHANGED taskseq
    BY <1>3 DEF comm_path_trans
  <2> QED
    BY <1>1, <2>1 DEF V!Publish, V!vehicle
<1> QED
  BY <1>2, <1>3

\* Seen from the link, the firmware is the vehicle the rest of the system relies
\* on: it works on the task published last and reports no other as done.
THEOREM ImplementsVehicle == Spec => AbstractVehicle
<1>1. Init => V!Init
  BY DEF Init, V!Init
<1>2. Inv /\ [Next]_vars => [V!Next]_V!vehicle
  <2> SUFFICES ASSUME Inv, [Next]_vars PROVE V!Next \/ UNCHANGED V!vehicle
    OBVIOUS
  <2>1. ASSUME NEW c \in Published, taskCb(c) PROVE V!Publish
    BY <2>1 DEF taskCb, Sends, doneVars, V!Publish
  <2>2. CASE OtherFrame \/ RestartBridge
    BY <2>2 DEF OtherFrame, Replaced, RestartBridge, doneVars, V!vehicle
  <2>3. ASSUME NEW mode \in 0..3, NEW stop \in BOOLEAN, NEW paused \in BOOLEAN,
               NEW to \in Places, ReadSwitches(mode, stop, paused, to)
        PROVE  V!Park \/ V!EmergencyStop \/ UNCHANGED V!vehicle
    BY <2>3 DEF ReadSwitches, linkVars, V!Park, V!EmergencyStop, V!vehicle
  <2>4. ASSUME NEW paused \in BOOLEAN, EnterAuto(paused)
        PROVE  V!Receive \/ V!Publish \/ UNCHANGED V!vehicle
    <3>1. commUnchanged' = commUnchanged
      BY <2>4 DEF EnterAuto
    <3>2. CASE SelfTestResult = 0
      BY <2>4, <3>1, <3>2, CommReceives DEF EnterAuto, Inv
    <3>3. CASE SelfTestResult # 0
      BY <2>4, <3>1, <3>3 DEF EnterAuto, commUnchanged, linkVars, V!vehicle
    <3> QED
      BY <3>2, <3>3
  <2>5. CASE ReadAgain
    <3>1. comm_path_trans /\ commUnchanged' = commUnchanged
      BY <2>5 DEF ReadAgain
    <3>2. V!Receive \/ V!Publish \/ UNCHANGED V!vehicle
      BY <3>1, CommReceives DEF Inv
    <3> QED
      BY <3>2 DEF V!Next
  <2>6. CASE SelfTest \/ Hold \/ GetTaskSystem \/ DriveOn \/ DriveToEnd \/ GetTaskParameter
    BY <2>6 DEF SelfTest, Hold, GetTaskSystem, DriveOn, DriveToEnd, GetTaskParameter,
       linkVars, doneVars, V!vehicle
  <2>7. CASE StopTask
    BY <2>7 DEF StopTask, DoneByte, linkVars, V!Next, V!Complete, V!EmergencyStop
  <2>8. CASE UNCHANGED vars
    BY <2>8 DEF vars, linkVars, doneVars, V!vehicle
  <2> QED
    BY <2>1, <2>2, <2>3, <2>4, <2>5, <2>6, <2>7, <2>8 DEF Next, Link, Pass, V!Next
<1> QED
  BY <1>1, <1>2, InvAlways, PTL DEF Spec, AbstractVehicle, V!Spec
================================================================================
