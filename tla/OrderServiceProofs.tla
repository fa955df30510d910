--------------------------- MODULE OrderServiceProofs ---------------------------
(***************************************************************************)
(* The dispatch node gives the service it promises: DispatchOrders          *)
(* implements OrderService, for all orders, task lists and routes, and      *)
(* whatever requests are lost.                                              *)
(***************************************************************************)
EXTENDS DispatchOrdersProofs

\* As long as there is a current task it is one of the order at the front of
\* the queue, that has been copied: also after a cancellation, when nothing
\* is executing.  What comes next out of the queue is then this order.
BegunIsFront ==
    currentTask # NoTask =>
        /\ g_agvOrders # <<>>
        /\ currentOrder.orderCode = Head(g_agvOrders).orderCode
        /\ Head(g_agvOrders).taskList # <<>>

\* The variables of OrderService.
begun == IF currentTask = NoTask THEN NoOrder ELSE currentOrder.orderCode
working == g_agv_state = "EXECUTING"
done == IF currentTask = NoTask THEN <<>> ELSE executed

serviceVars == <<openOrders, begun, working, done>>

\* What the queue says of its front.
LEMMA FrontOrder ==
    ASSUME Bookkeeping, g_agvOrders # <<>>
    PROVE  /\ Head(g_agvOrders) \in AgvOrder
           /\ Head(g_agvOrders).orderCode \in openOrders
           /\ Head(g_agvOrders).taskList = OrderTasks[Head(g_agvOrders).orderCode]
           /\ Head(g_agvOrders).taskList \in Seq(Task)
           /\ Head(g_agvOrders).orderCode \in OrderCodes
<1>1. g_agvOrders \in Seq(AgvOrder)
  BY DEF Bookkeeping, TypeOK
<1>2. Head(g_agvOrders) = g_agvOrders[1] /\ 1 \in DOMAIN g_agvOrders
      /\ Head(g_agvOrders) \in AgvOrder
  BY <1>1, HeadTailProperties, LenProperties
<1>3. Head(g_agvOrders).orderCode \in QueuedCodes
  BY <1>2 DEF QueuedCodes
<1>4. Head(g_agvOrders).taskList = OrderTasks[Head(g_agvOrders).orderCode]
  BY <1>2 DEF Bookkeeping, QueueIndexed
<1> QED
  BY <1>2, <1>3, <1>4 DEF Bookkeeping, OnlyOpenOrdersQueued, AgvOrder

\* A vehicle that works has a current task.
LEMMA WorkingHasTask ==
    ASSUME Bookkeeping, g_agv_state = "EXECUTING"
    PROVE  /\ currentTask # NoTask
           /\ currentOrder.taskList \in Seq(Task) /\ currentOrder.taskList # <<>>
           /\ executed \in Seq(Task)
           /\ executed \o currentOrder.taskList = OrderTasks[currentOrder.orderCode]
<1>1. /\ currentOrder.taskList \in Seq(Task) /\ currentOrder.taskList # <<>>
      /\ currentTask = Head(currentOrder.taskList)
      /\ executed \in Seq(Task)
      /\ executed \o currentOrder.taskList = OrderTasks[currentOrder.orderCode]
  BY DEF Bookkeeping, TypeOK, ExecutingFrontOrder, ProgressAddsUp
<1>2. currentTask \in Task
  BY <1>1, TaskListType
<1> QED
  BY <1>1, <1>2, OrdersAssumption

-----------------------------------------------------------------------------
(* The invariant *)

LEMMA BegunInit == Init => BegunIsFront
BY DEF Init, NodeInit, BegunIsFront

\* No poll puts an order before the one that is begun, and the timer that drops
\* an order without tasks never finds one begun at the front.
LEMMA BegunNext ==
    ASSUME Bookkeeping, BegunIsFront, [Next]_vars
    PROVE  BegunIsFront'
<1>1. CASE Timers
  <2>1. PICK fresh \in FreshReplies : \E broken \in BrokenOrders(fresh) :
           timerCallback(fresh, broken) \/ postCancelTimerCallback(fresh, broken)
    BY <1>1 DEF Timers
  <2>2. PICK broken \in BrokenOrders(fresh) :
           timerCallback(fresh, broken) \/ postCancelTimerCallback(fresh, broken)
    BY <2>1
  <2>3. UNCHANGED <<currentOrder, currentTask>>
    BY <2>2 DEF timerCallback, postCancelTimerCallback, currentVars
  <2>4. UNCHANGED orderVars \/ postCheckAgvSchedulingOrder(fresh, broken)
    BY <2>2 DEF timerCallback, postCancelTimerCallback
  <2>5. CASE UNCHANGED orderVars
    BY <2>3, <2>5 DEF orderVars, BegunIsFront
  <2>6. CASE postCheckAgvSchedulingOrder(fresh, broken)
    <3>1. g_agvOrders # <<>> => /\ g_agvOrders' # <<>>
                                /\ Head(g_agvOrders') = Head(g_agvOrders)
      BY <2>6, PollBookkeeping DEF Bookkeeping
    <3> QED
      BY <2>3, <3>1 DEF BegunIsFront
  <2> QED
    BY <2>4, <2>5, <2>6
<1>2. CASE DropEmptyOrder
  <2>1. currentTask = NoTask /\ currentTask' = NoTask
    BY <1>2 DEF DropEmptyOrder, BegunIsFront
  <2> QED
    BY <2>1 DEF BegunIsFront
<1>3. CASE dispatchNextOrder
  BY <1>3 DEF dispatchNextOrder, orderVars, BegunIsFront
<1>4. CASE taskCompleteNext
  <2>1. /\ g_agv_state = "EXECUTING" /\ UNCHANGED orderVars
        /\ currentOrder' = [currentOrder EXCEPT !.taskList = RemainingTasks]
    BY <1>4 DEF taskCompleteNext, FinishCurrentTask, TaskConfirmed
  <2>2. currentOrder'.orderCode = currentOrder.orderCode
    BY <2>1 DEF Bookkeeping, TypeOK
  <2>3. currentTask # NoTask
    BY <2>1, WorkingHasTask
  <2> QED
    BY <2>1, <2>2, <2>3 DEF BegunIsFront, orderVars
<1>5. CASE taskCompleteLast \/ manualTakeoverCallback \/ Restart
  BY <1>5 DEF taskCompleteLast, manualTakeoverCallback, Restart, BegunIsFront
<1>6. CASE Flags
  BY <1>6 DEF Flags, statusFlagsCallback, orderVars, currentVars, BegunIsFront
<1>7. CASE manualTakeoverCancelCallback
  <2>1. currentTask' # NoTask => currentTask # NoTask
    BY <1>7 DEF manualTakeoverCancelCallback
  <2> QED
    BY <1>7, <2>1 DEF manualTakeoverCancelCallback, orderVars, BegunIsFront
<1>8. CASE \/ VehicleReceives \/ StopTask \/ VehicleParked \/ VehicleEmergencyStop
           \/ UNCHANGED vars
  BY <1>8 DEF VehicleReceives, StopTask, VehicleParked, VehicleEmergencyStop,
     nodeVars, vars, orderVars, currentVars, BegunIsFront
<1> QED
  BY <1>1, <1>2, <1>3, <1>4, <1>5, <1>6, <1>7, <1>8 DEF Next, Progress

\* The order that has a current task is the front of the queue, through polls,
\* cancellations and renewed dispatches.
THEOREM BegunIsFrontAlways == Spec => []BegunIsFront
<1>1. Bookkeeping /\ BegunIsFront /\ [Next]_vars => BegunIsFront'
  BY BegunNext
<1> QED
  BY <1>1, BegunInit, BookkeepingCorrect, PTL DEF Spec

-----------------------------------------------------------------------------
(* The steps *)

\* The service in terms of the four state functions.
Stays == UNCHANGED serviceVars
GivesUp == begun' = NoOrder /\ ~working' /\ done' = <<>>
Closes == openOrders' \in {openOrders, openOrders \ {begun}}

LEMMA ServiceSteps ==
    /\ Stays => UNCHANGED Service!service
    /\ GivesUp /\ Closes => Service!Takeover
    /\ ~working' /\ UNCHANGED <<openOrders, begun, done>> => Service!Interrupt
    /\ Service!Takeover \/ Service!Interrupt \/ Service!Advance \/ Service!Finish => Service!Next
<1>1. Stays => UNCHANGED Service!service
  BY DEF Stays, serviceVars, Service!service, begun, working, done
<1>2. GivesUp /\ Closes => Service!Takeover
  BY DEF GivesUp, Closes, Service!Takeover, Service!GiveUp, begun, working, done
<1>3. ~working' /\ UNCHANGED <<openOrders, begun, done>> => Service!Interrupt
  BY DEF Service!Interrupt, begun, working, done
<1>4. Service!Takeover \/ Service!Interrupt \/ Service!Advance \/ Service!Finish => Service!Next
  BY DEF Service!Next
<1> QED
  BY <1>1, <1>2, <1>3, <1>4

\* A dispatch begins an order that is open, and no other while one is begun.
LEMMA DispatchBegins ==
    ASSUME Bookkeeping, BegunIsFront, dispatchNextOrder
    PROVE  Service!Next
<1> DEFINE o == Head(g_agvOrders).orderCode
<1>1. /\ ~working /\ g_agvOrders # <<>>
      /\ Head(g_agvOrders).taskList # <<>>
      /\ currentOrder' = Head(g_agvOrders)
      /\ currentTask' = Head(Head(g_agvOrders).taskList)
      /\ working' /\ executed' = <<>>
  BY DEF dispatchNextOrder, working
<1>2. o \in openOrders /\ o \in OrderCodes /\ OrderTasks[o] # <<>>
  BY <1>1, FrontOrder
<1>3. openOrders' = openOrders
  <2>1. \A r \in postReportAgvTaskDetail(currentOrder'.orderCode, currentTask',
                                         currentTask', "30", "20") :
           r.workingStatus # "70"
    BY DEF postReportAgvTaskDetail
  <2> QED
    BY <2>1, NothingClosed DEF dispatchNextOrder
<1>4. currentTask' # NoTask
  <2>1. currentTask' \in Task
    BY <1>1, FrontOrder, TaskListType
  <2> QED
    BY <2>1, OrdersAssumption
<1>5. begun \in {NoOrder, o}
  BY DEF BegunIsFront, begun
<1>6. begun' = o /\ done' = <<>>
  BY <1>1, <1>4 DEF begun, done
<1> HIDE DEF o
<1>7. Service!Begin(o)
  BY <1>1, <1>2, <1>3, <1>5, <1>6 DEF Service!Begin, begun, working, done
<1> QED
  BY <1>2, <1>7 DEF Service!Next

\* The task confirmed is the next one of the list the server sent.
LEMMA ConfirmedIsNext ==
    ASSUME Bookkeeping, FinishCurrentTask
    PROVE  /\ working /\ begun = currentOrder.orderCode /\ done = executed
           /\ executed' = Append(done, OrderTasks[begun][Len(done) + 1])
           /\ Len(OrderTasks[begun]) = Len(done) + Len(currentOrder.taskList)
           /\ Len(done) \in Nat
<1>1. g_agv_state = "EXECUTING" /\ executed' = Append(executed, Head(currentOrder.taskList))
  BY DEF FinishCurrentTask, TaskConfirmed
<1>2. /\ currentTask # NoTask
      /\ currentOrder.taskList \in Seq(Task) /\ currentOrder.taskList # <<>>
      /\ executed \in Seq(Task)
      /\ executed \o currentOrder.taskList = OrderTasks[currentOrder.orderCode]
  BY <1>1, WorkingHasTask
<1>3. begun = currentOrder.orderCode /\ done = executed /\ working
  BY <1>1, <1>2 DEF begun, done, working
<1>4. /\ Len(executed) \in Nat /\ Len(currentOrder.taskList) \in Nat \ {0}
      /\ Head(currentOrder.taskList) = currentOrder.taskList[1]
  BY <1>2, HeadTailProperties, LenProperties
<1>5. /\ Len(executed \o currentOrder.taskList) = Len(executed) + Len(currentOrder.taskList)
      /\ (executed \o currentOrder.taskList)[Len(executed) + 1] = currentOrder.taskList[1]
  <2>1. ASSUME NEW s \in Seq(Task), NEW t \in Seq(Task), Len(t) > 0
        PROVE  Len(s \o t) = Len(s) + Len(t) /\ (s \o t)[Len(s) + 1] = t[1]
    BY <2>1
  <2>2. Len(currentOrder.taskList) > 0
    BY <1>4
  <2> QED
    BY <1>2, <2>1, <2>2
<1> QED
  BY <1>1, <1>2, <1>3, <1>4, <1>5

LEMMA NextTaskAdvances ==
    ASSUME Bookkeeping, BegunIsFront, taskCompleteNext
    PROVE  Service!Advance
<1>1. /\ FinishCurrentTask /\ Len(currentOrder.taskList) > 1
      /\ currentOrder' = [currentOrder EXCEPT !.taskList = RemainingTasks]
      /\ currentTask' = Head(currentOrder'.taskList)
      /\ UNCHANGED g_agv_state
  BY DEF taskCompleteNext
<1>2. /\ working /\ begun = currentOrder.orderCode /\ done = executed
      /\ executed' = Append(done, OrderTasks[begun][Len(done) + 1])
      /\ Len(OrderTasks[begun]) = Len(done) + Len(currentOrder.taskList)
      /\ Len(done) \in Nat
  BY <1>1, ConfirmedIsNext
<1>3. /\ RemainingTasks \in Seq(Task) /\ RemainingTasks # <<>>
      /\ Len(currentOrder.taskList) \in Nat
  BY <1>1, TypeConfirmed DEF Bookkeeping
<1>4. currentOrder'.orderCode = currentOrder.orderCode /\ currentOrder'.taskList = RemainingTasks
  BY <1>1 DEF Bookkeeping, TypeOK
<1>5. currentTask' # NoTask
  BY <1>1, <1>3, <1>4, TaskListType, OrdersAssumption
<1>6. openOrders' = openOrders
  <2>1. \A r \in CompletionReport
                   \cup postReportAgvTaskDetail(currentOrder.orderCode, currentTask',
                                                currentTask', "30", "20") :
           r.workingStatus # "70"
    BY DEF CompletionReport, postReportAgvTaskDetail
  <2> QED
    BY <2>1, NothingClosed DEF taskCompleteNext
<1>7. begun' = begun /\ done' = executed' /\ working' = working
  BY <1>1, <1>2, <1>4, <1>5 DEF begun, done, working
<1>8. Len(done) + 1 < Len(OrderTasks[begun])
  BY <1>1, <1>2, <1>3
<1> QED
  BY <1>2, <1>6, <1>7, <1>8 DEF Service!Advance, begun, done, working

LEMMA LastTaskFinishes ==
    ASSUME Bookkeeping, BegunIsFront, taskCompleteLast
    PROVE  Service!Finish
<1>1. FinishCurrentTask /\ Len(currentOrder.taskList) = 1
  BY DEF taskCompleteLast
<1>2. /\ working /\ begun = currentOrder.orderCode
      /\ Len(OrderTasks[begun]) = Len(done) + 1
  BY <1>1, ConfirmedIsNext
<1>3. openOrders' \in {openOrders, openOrders \ {begun}}
  <2>1. /\ openOrders' \subseteq openOrders
        /\ openOrders \ openOrders' \subseteq {currentOrder.orderCode}
    BY LastTaskOfOrder
  <2> QED
    BY <1>2, <2>1
<1>4. begun' = NoOrder /\ ~working' /\ done' = <<>>
  BY DEF taskCompleteLast, begun, working, done
<1> QED
  BY <1>2, <1>3, <1>4 DEF Service!Finish, Service!GiveUp, begun, working, done

\* A takeover names the order that is begun, if it says that one is finished.
LEMMA TakeoverCloses ==
    ASSUME Bookkeeping, manualTakeoverCallback
    PROVE  GivesUp /\ Closes
<1>1. GivesUp
  BY DEF manualTakeoverCallback, GivesUp, begun, working, done
<1>2. PICK received \in SUBSET TakeoverReports : openOrders' = openOrders \ ClosedBy(received)
  BY DEF manualTakeoverCallback, Send
<1>3. \A r \in TakeoverReports : r.orderCode = currentOrder.orderCode /\ currentTask # NoTask
  BY DEF TakeoverReports, TaskReport, postReportAgvTaskDetail
<1>4. ClosedBy(received) \subseteq {begun}
  BY <1>2, <1>3 DEF ClosedBy, begun
<1>5. Closes
  BY <1>2, <1>4 DEF Closes
<1> QED
  BY <1>1, <1>5

\* Every step of the node, the vehicle and the server is one of the service.
LEMMA ServiceNext ==
    ASSUME Bookkeeping, BegunIsFront, [Next]_vars
    PROVE  [Service!Next]_Service!service
<1>1. CASE Timers
  <2>1. Stays
    BY <1>1 DEF Timers, timerCallback, postCancelTimerCallback, currentVars, Silent,
       Stays, serviceVars, begun, working, done
  <2> QED
    BY <2>1, ServiceSteps
<1>2. CASE DropEmptyOrder
  <2>1. currentTask = NoTask
    BY <1>2 DEF DropEmptyOrder, BegunIsFront
  <2>2. Stays
    BY <1>2, <2>1 DEF DropEmptyOrder, Silent, Stays, serviceVars, begun, working, done
  <2> QED
    BY <2>2, ServiceSteps
<1>3. CASE dispatchNextOrder
  BY <1>3, DispatchBegins
<1>4. CASE taskCompleteNext
  BY <1>4, NextTaskAdvances, ServiceSteps
<1>5. CASE taskCompleteLast
  BY <1>5, LastTaskFinishes, ServiceSteps
<1>6. CASE Flags
  <2>1. Stays
    BY <1>6, FlagsCloseNothing DEF currentVars, Stays, serviceVars, begun, working, done
  <2> QED
    BY <2>1, ServiceSteps
<1>7. CASE manualTakeoverCallback
  BY <1>7, TakeoverCloses, ServiceSteps
<1>8. CASE manualTakeoverCancelCallback
  <2>1. /\ ~working' /\ UNCHANGED <<currentOrder, executed, openOrders>>
        /\ currentTask = NoTask => currentTask' = NoTask
    BY <1>8 DEF manualTakeoverCancelCallback, Silent, working
  <2>2. currentTask # NoTask => currentTask' # NoTask
    <3>1. currentTask # NoTask => currentTask' = [currentTask EXCEPT !.start = agvpostion]
      BY <1>8 DEF manualTakeoverCancelCallback
    <3>2. currentTask # NoTask => currentTask' \in Task
      BY <3>1 DEF Bookkeeping, TypeOK, Task
    <3> QED
      BY <3>2, OrdersAssumption
  <2>3. UNCHANGED <<openOrders, begun, done>>
    BY <2>1, <2>2 DEF begun, done
  <2> QED
    BY <2>1, <2>3, ServiceSteps
<1>9. CASE Restart
  <2>1. GivesUp /\ Closes
    BY <1>9 DEF Restart, Silent, GivesUp, Closes, begun, working, done
  <2> QED
    BY <2>1, ServiceSteps
<1>10. CASE \/ VehicleReceives \/ StopTask \/ VehicleParked \/ VehicleEmergencyStop
            \/ UNCHANGED vars
  <2>1. Stays
    BY <1>10 DEF VehicleReceives, StopTask, VehicleParked, VehicleEmergencyStop, Silent,
       nodeVars, vars, currentVars, Stays, serviceVars, begun, working, done
  <2> QED
    BY <2>1, ServiceSteps
<1> QED
  BY <1>1, <1>2, <1>3, <1>4, <1>5, <1>6, <1>7, <1>8, <1>9, <1>10 DEF Next, Progress

\* The dispatch node serves one order at a time, its tasks in their sequence,
\* an interrupted order before any other, and no order is told to be finished
\* but the one that is begun: through polls, lost reports, takeovers,
\* cancellations and restarts.
THEOREM ServesOrdersCorrect == Spec => ServesOrders
<1>1. Init => Service!Init
  BY DEF Init, NodeInit, Service!Init
<1>2. Bookkeeping /\ BegunIsFront /\ [Next]_vars => [Service!Next]_Service!service
  BY ServiceNext
<1> QED
  BY <1>1, <1>2, BookkeepingCorrect, BegunIsFrontAlways, PTL DEF Spec, ServesOrders, Service!Spec

=================================================================================
