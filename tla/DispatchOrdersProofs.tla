------------------------- MODULE DispatchOrdersProofs -------------------------
(***************************************************************************)
(* Proofs about DispatchOrders, for every set of orders, every route map   *)
(* and every reply size.                                                   *)
(***************************************************************************)
EXTENDS DispatchOrders, SequenceTheorems, TLAPS

\* A reply is a sequence of distinct open orders whose codes are not indexed,
\* and the records queued for it are orders with the tasks the server sent.
LEMMA FreshReply ==
    ASSUME TypeOK, NEW fresh \in FreshReplies
    PROVE  /\ fresh \in Seq(OrderCodes)
           /\ \A i \in 1..Len(fresh) : fresh[i] \in openOrders \ g_orderCodes
           /\ \A i, j \in 1..Len(fresh) : fresh[i] = fresh[j] => i = j
           /\ DOMAIN fresh = 1..Len(fresh)
           /\ Orders(fresh) \in Seq(AgvOrder)
           /\ Len(Orders(fresh)) = Len(fresh)
           /\ \A i \in 1..Len(fresh) :
                 /\ Orders(fresh)[i].orderCode = fresh[i]
                 /\ Orders(fresh)[i].taskList = OrderTasks[fresh[i]]
<1>1. PICK n \in 0..MaxReply :
         /\ fresh \in [1..n -> openOrders \ g_orderCodes]
         /\ \A i, j \in 1..n : fresh[i] = fresh[j] => i = j
  BY DEF FreshReplies
<1>2. n \in Nat
  BY <1>1, OrdersAssumption
<1>3. openOrders \ g_orderCodes \subseteq OrderCodes
  BY DEF TypeOK
<1>4. fresh \in Seq(OrderCodes) /\ Len(fresh) = n
  BY <1>1, <1>2, <1>3
<1>5. \A i \in 1..n : [orderCode |-> fresh[i], taskList |-> OrderTasks[fresh[i]]] \in AgvOrder
  BY <1>1, <1>3, OrdersAssumption DEF AgvOrder
<1>6. Orders(fresh) \in [1..n -> AgvOrder]
  BY <1>1, <1>5 DEF Orders
<1>7. Orders(fresh) \in Seq(AgvOrder) /\ Len(Orders(fresh)) = n
  BY <1>2, <1>6
<1> QED
  BY <1>1, <1>4, <1>7 DEF Orders

\* The poll keeps the queue a sequence of orders and the index a set of codes.
LEMMA PollType ==
    ASSUME TypeOK, NEW fresh \in FreshReplies, NEW broken \in BrokenOrders(fresh),
           postCheckAgvSchedulingOrder(fresh, broken)
    PROVE  g_agvOrders' \in Seq(AgvOrder) /\ g_orderCodes' \subseteq OrderCodes
<1>1. Orders(fresh) \in Seq(AgvOrder) /\ fresh \in Seq(OrderCodes)
  BY FreshReply
<1>2. {fresh[i] : i \in DOMAIN fresh} \subseteq OrderCodes
  BY <1>1
<1>3. broken \subseteq OrderCodes
  BY DEF BrokenOrders, TypeOK
<1> QED
  BY <1>1, <1>2, <1>3 DEF postCheckAgvSchedulingOrder, TypeOK

\* Sending reports keeps the types of what the server knows.
LEMMA SendType ==
    ASSUME TypeOK, NEW rs, rs \subseteq Report, Send(rs)
    PROVE  reports' \subseteq Report /\ openOrders' \subseteq OrderCodes
BY DEF Send, TypeOK

\* The published code is a code of the route map.
LEMMA PublishType ==
    ASSUME TypeOK, NEW t \in Task, publishOneTask(t)
    PROVE  /\ g_current_dispatch_code' \in Codes \cup {NoCode}
           /\ task_sequence_request' \in Codes \cup {NoDone}
BY DEF publishOneTask, TypeOK, Codes

\* The first task of a non-empty list is a task, the rest a list of tasks.
LEMMA TaskListType ==
    ASSUME NEW s \in Seq(Task), s # <<>>
    PROVE  Head(s) \in Task /\ Tail(s) \in Seq(Task) /\ Len(s) \in Nat \ {0}
BY HeadTailProperties, LenProperties

\* The variables start with values of their types.
LEMMA TypeInit == Init => TypeOK
<1> SUFFICES ASSUME Init PROVE TypeOK
  OBVIOUS
<1>1. g_agvOrders \in Seq(AgvOrder) /\ executed \in Seq(Task)
  BY DEF Init, NodeInit
<1>2. currentOrder \in [orderCode : OrderCodes \cup {NoOrder}, taskList : Seq(Task)]
  BY DEF Init, NodeInit, EmptyOrder
<1>3. agvpostion \in Positions
  BY OrdersAssumption DEF Init, NodeInit
<1> QED
  BY <1>1, <1>2, <1>3 DEF Init, NodeInit, TypeOK

\* The periodic timer keeps the types.
LEMMA TypeTimer ==
    ASSUME TypeOK, NEW fresh \in FreshReplies, NEW broken \in BrokenOrders(fresh),
           timerCallback(fresh, broken)
    PROVE  TypeOK'
<1>1. g_agvOrders' \in Seq(AgvOrder) /\ g_orderCodes' \subseteq OrderCodes
  BY PollType DEF timerCallback, orderVars, TypeOK
<1>2. /\ g_current_dispatch_code' \in Codes \cup {NoCode}
      /\ task_sequence_request' \in Codes \cup {NoDone}
  BY PublishType DEF timerCallback, TypeOK
<1>3. UNCHANGED <<g_agv_state, currentVars, statusVars, agvpostion, delayVars,
                  vehicleVars, openOrders>> /\ reports' = {}
  BY DEF timerCallback, Silent
<1> QED
  BY <1>1, <1>2, <1>3 DEF TypeOK, currentVars, statusVars, delayVars, vehicleVars

\* The one-shot timer keeps the types.
LEMMA TypeCancelTimer ==
    ASSUME TypeOK, NEW fresh \in FreshReplies, NEW broken \in BrokenOrders(fresh),
           postCancelTimerCallback(fresh, broken)
    PROVE  TypeOK'
<1>1. g_agvOrders' \in Seq(AgvOrder) /\ g_orderCodes' \subseteq OrderCodes
  BY PollType DEF postCancelTimerCallback, orderVars, TypeOK
<1>2. /\ g_is_cancel_delay_active' \in BOOLEAN
      /\ cancel_pending' \in BOOLEAN
      /\ post_cancel_timer' \in BOOLEAN
  BY DEF postCancelTimerCallback, EndDelay
<1>3. UNCHANGED <<g_agv_state, currentVars, g_current_dispatch_code, statusVars,
                  agvpostion, task_sequence_request, vehicleVars, openOrders>>
      /\ reports' = {}
  BY DEF postCancelTimerCallback, Silent
<1> QED
  BY <1>1, <1>2, <1>3 DEF TypeOK, currentVars, statusVars, vehicleVars

\* Starting an order, or dropping one without tasks, keeps the types.
LEMMA TypeStart ==
    ASSUME TypeOK,
           DropEmptyOrder \/ dispatchNextOrder
    PROVE  TypeOK'
<1>1. /\ g_agvOrders # <<>>
      /\ currentOrder' = Head(g_agvOrders)
      /\ executed' = <<>>
  BY DEF DropEmptyOrder, dispatchNextOrder
<1>2. /\ Head(g_agvOrders) \in AgvOrder
      /\ Tail(g_agvOrders) \in Seq(AgvOrder)
  BY <1>1, HeadTailProperties DEF TypeOK
<1>3. currentOrder' \in [orderCode : OrderCodes \cup {NoOrder}, taskList : Seq(Task)]
  BY <1>1, <1>2 DEF AgvOrder
<1>4. executed' \in Seq(Task)
  BY <1>1
<1>5. CASE DropEmptyOrder
  <2>1. g_agvOrders' \in Seq(AgvOrder) /\ g_orderCodes' \subseteq OrderCodes
    BY <1>2, <1>5 DEF DropEmptyOrder, LeaveQueue, TypeOK
  <2>2. UNCHANGED <<g_agv_state, currentTask, last_task, if_order_ok,
                    g_current_dispatch_code, statusVars, agvpostion, delayVars,
                    task_sequence_request, vehicleVars, openOrders>> /\ reports' = {}
    BY <1>5 DEF DropEmptyOrder, Silent
  <2> QED
    BY <1>3, <1>4, <2>1, <2>2 DEF TypeOK, statusVars, delayVars, vehicleVars
<1>6. CASE dispatchNextOrder
  <2>1. currentTask' \in Task
    BY <1>1, <1>2, <1>6, TaskListType DEF dispatchNextOrder, AgvOrder
  <2>2. postReportAgvTaskDetail(currentOrder'.orderCode, currentTask',
                                currentTask', "30", "20") \subseteq Report
    BY <1>3, <2>1 DEF postReportAgvTaskDetail, Report
  <2>3. reports' \subseteq Report /\ openOrders' \subseteq OrderCodes
    BY <1>6, <2>2, SendType DEF dispatchNextOrder
  <2>4. /\ g_agv_state' = "EXECUTING" /\ if_order_ok' = FALSE /\ agvStatus' = "30"
        /\ UNCHANGED <<orderVars, last_task, g_current_dispatch_code,
                       last_agv_status, agvpostion, delayVars,
                       task_sequence_request, vehicleVars>>
    BY <1>6 DEF dispatchNextOrder
  <2> QED
    BY <1>3, <1>4, <2>1, <2>3, <2>4, ZenonT(40) DEF TypeOK, orderVars, delayVars, vehicleVars
<1> QED
  BY <1>5, <1>6

\* A confirmed task is one of the list; what remains is a list of tasks.
LEMMA TypeConfirmed ==
    ASSUME TypeOK, FinishCurrentTask
    PROVE  /\ Head(currentOrder.taskList) \in Task
           /\ last_task' \in Task
           /\ RemainingTasks \in Seq(Task)
           /\ Len(currentOrder.taskList) \in Nat
           /\ Len(currentOrder.taskList) > 1 => RemainingTasks # <<>>
           /\ agvpostion' \in Positions
           /\ executed' \in Seq(Task)
           /\ currentOrder.orderCode \in OrderCodes \cup {NoOrder}
<1>1. currentOrder.taskList \in Seq(Task) /\ currentOrder.taskList # <<>>
  BY DEF TypeOK, FinishCurrentTask, TaskConfirmed
<1>2. /\ Head(currentOrder.taskList) \in Task
      /\ RemainingTasks \in Seq(Task)
      /\ Len(RemainingTasks) = Len(currentOrder.taskList) - 1
      /\ Len(currentOrder.taskList) \in Nat
  BY <1>1, HeadTailProperties, LenProperties DEF RemainingTasks
<1>3. Len(currentOrder.taskList) > 1 => RemainingTasks # <<>>
  BY <1>2
<1>4. last_task' \in Task /\ last_task'.end \in Positions
  BY <1>2 DEF FinishCurrentTask, Task
<1>5. agvpostion' \in Positions /\ executed' \in Seq(Task)
  BY <1>4 DEF FinishCurrentTask, TypeOK
<1> QED
  BY <1>2, <1>3, <1>4, <1>5 DEF TypeOK

\* Completing a task keeps the types.
LEMMA TypeComplete ==
    ASSUME TypeOK, taskCompleteNext \/ taskCompleteLast
    PROVE  TypeOK'
<1>1. FinishCurrentTask
  BY DEF taskCompleteNext, taskCompleteLast
<1>2. /\ g_current_dispatch_code' = NoCode
      /\ UNCHANGED <<last_agv_status, delayVars, task_sequence_request, vehicleVars>>
  BY <1>1 DEF FinishCurrentTask
<1>3. CompletionReport \subseteq Report
  BY <1>1, TypeConfirmed DEF CompletionReport, postReportAgvTaskDetail, Report, TypeOK
<1>4. CASE taskCompleteNext
  <2>1. /\ currentOrder' \in [orderCode : OrderCodes \cup {NoOrder}, taskList : Seq(Task)]
        /\ currentOrder'.taskList = RemainingTasks
    BY <1>1, <1>4, TypeConfirmed DEF taskCompleteNext, TypeOK
  <2>2. currentTask' \in Task
    BY <1>1, <1>4, <2>1, TypeConfirmed, TaskListType DEF taskCompleteNext
  <2>3. postReportAgvTaskDetail(currentOrder.orderCode, currentTask',
                                currentTask', "30", "20") \subseteq Report
    BY <1>1, <2>2, TypeConfirmed DEF postReportAgvTaskDetail, Report
  <2>4. reports' \subseteq Report /\ openOrders' \subseteq OrderCodes
    BY <1>3, <1>4, <2>3, SendType DEF taskCompleteNext
  <2>5. UNCHANGED <<g_agv_state, orderVars, agvStatus>> /\ if_order_ok' = FALSE
    BY <1>4 DEF taskCompleteNext
  <2>6. last_task' \in Task /\ agvpostion' \in Positions /\ executed' \in Seq(Task)
    BY <1>1, TypeConfirmed
  <2> QED
    BY <1>2, <2>1, <2>2, <2>4, <2>5, <2>6, ZenonT(40)
    DEF TypeOK, orderVars, delayVars, vehicleVars
<1>5. CASE taskCompleteLast
  <2>1. postReportAgvTaskDetail(currentOrder.orderCode, currentTask,
                                last_task', "70", "70") \subseteq Report
    BY <1>1, TypeConfirmed DEF postReportAgvTaskDetail, Report, TypeOK
  <2>2. reports' \subseteq Report /\ openOrders' \subseteq OrderCodes
    BY <1>3, <1>5, <2>1, SendType DEF taskCompleteLast
  <2>3. g_agvOrders' \in Seq(AgvOrder) /\ g_orderCodes' \subseteq OrderCodes
    <3>1. (g_agvOrders # <<>> /\ LeaveQueue) \/ UNCHANGED orderVars
      BY <1>5 DEF taskCompleteLast
    <3>2. g_agvOrders \in Seq(AgvOrder) /\ g_orderCodes \subseteq OrderCodes
      BY DEF TypeOK
    <3> QED
      BY <3>1, <3>2, HeadTailProperties DEF LeaveQueue, orderVars
  <2>4. currentOrder' \in [orderCode : OrderCodes \cup {NoOrder}, taskList : Seq(Task)]
    BY <1>5 DEF taskCompleteLast, EmptyOrder
  <2>5. /\ currentTask' = NoTask /\ g_agv_state' = "IDLE"
        /\ agvStatus' = "10" /\ if_order_ok' = TRUE
    BY <1>5 DEF taskCompleteLast
  <2>6. last_task' \in Task /\ agvpostion' \in Positions /\ executed' \in Seq(Task)
    BY <1>1, TypeConfirmed
  <2> QED
    BY <1>2, <2>2, <2>3, <2>4, <2>5, <2>6
    DEF TypeOK, delayVars, vehicleVars
<1> QED
  BY <1>4, <1>5

\* The status flags, a takeover and its cancellation keep the types.
LEMMA TypeOperator ==
    ASSUME TypeOK, Flags \/ manualTakeoverCallback \/ manualTakeoverCancelCallback \/ Restart
    PROVE  TypeOK'
<1>1. CASE Flags
  <2>1. PICK flags \in FlagInputs : statusFlagsCallback(flags[1], flags[2])
    BY <1>1 DEF Flags
  <2>2. \A working \in {"30", "50", "80"} : FlagsReport(working) \subseteq Report
    BY DEF FlagsReport, postReportAgvTaskDetail, Report, TypeOK
  <2>3. reports' \subseteq Report /\ openOrders' \subseteq OrderCodes
    BY <2>1, <2>2, SendType DEF statusFlagsCallback
  <2>4. /\ agvStatus' \in {"10", "30", "40", "80"}
        /\ last_agv_status' \in {"suibian", "10", "30", "40"}
        /\ UNCHANGED <<g_agv_state, orderVars, currentVars, g_current_dispatch_code,
                       agvpostion, delayVars, task_sequence_request, vehicleVars>>
    BY <2>1 DEF statusFlagsCallback
  <2> QED
    BY <2>3, <2>4 DEF TypeOK, orderVars, currentVars, delayVars, vehicleVars
<1>2. CASE manualTakeoverCallback
  <2>2. ASSUME NEW i \in DOMAIN g_agvOrders, NEW k \in DOMAIN g_agvOrders[i].taskList
        PROVE  TaskReport(g_agvOrders[i].taskList, k) \subseteq Report
    <3>1. g_agvOrders[i] \in AgvOrder
      BY DEF TypeOK
    <3>2. g_agvOrders[i].taskList[k] \in Task
      BY <3>1 DEF AgvOrder
    <3> QED
      BY <3>2 DEF TaskReport, postReportAgvTaskDetail, Report, TypeOK
  <2>3. TakeoverReports \subseteq Report
    BY <2>2 DEF TakeoverReports
  <2>4. reports' \subseteq Report /\ openOrders' \subseteq OrderCodes
    BY <1>2, <2>3, SendType DEF manualTakeoverCallback
  <2>5. /\ currentOrder' \in [orderCode : OrderCodes \cup {NoOrder}, taskList : Seq(Task)]
        /\ g_agvOrders' \in Seq(AgvOrder) /\ executed' \in Seq(Task)
    BY <1>2 DEF manualTakeoverCallback, EmptyOrder
  <2>6. /\ g_orderCodes' = {} /\ g_agv_state' = "IDLE" /\ agvStatus' = "80"
        /\ currentTask' = NoTask /\ last_task' = NoTask
        /\ UNCHANGED <<if_order_ok, g_current_dispatch_code, last_agv_status,
                       agvpostion, delayVars, task_sequence_request, vehicleVars>>
    BY <1>2 DEF manualTakeoverCallback
  <2> QED
    BY <2>4, <2>5, <2>6 DEF TypeOK, delayVars, vehicleVars
<1>3. CASE manualTakeoverCancelCallback
  <2>1. currentTask' \in Task \cup {NoTask}
    BY <1>3 DEF manualTakeoverCancelCallback, TypeOK, Task
  <2>2. /\ g_agv_state' = "IDLE" /\ agvStatus' \in {"10", "30"}
        /\ g_is_cancel_delay_active' = TRUE /\ cancel_pending' = TRUE
        /\ post_cancel_timer' = TRUE /\ reports' = {}
        /\ UNCHANGED <<orderVars, currentOrder, last_task, if_order_ok, executed,
                       g_current_dispatch_code, last_agv_status, agvpostion,
                       task_sequence_request, vehicleVars, openOrders>>
    BY <1>3 DEF manualTakeoverCancelCallback, Silent
  <2> QED
    BY <2>1, <2>2 DEF TypeOK, orderVars, vehicleVars
<1>4. CASE Restart
  <2>1. /\ currentOrder' \in [orderCode : OrderCodes \cup {NoOrder}, taskList : Seq(Task)]
        /\ g_agvOrders' \in Seq(AgvOrder) /\ executed' \in Seq(Task)
    BY <1>4 DEF Restart, EmptyOrder
  <2>2. agvpostion' \in Positions
    BY <1>4, OrdersAssumption DEF Restart
  <2> QED
    BY <1>4, <2>1, <2>2 DEF Restart, Silent, TypeOK, vehicleVars
<1> QED
  BY <1>1, <1>2, <1>3, <1>4

\* Every step keeps the types.
LEMMA TypeNext == TypeOK /\ [Next]_vars => TypeOK'
<1> SUFFICES ASSUME TypeOK, [Next]_vars PROVE TypeOK'
  OBVIOUS
<1>1. CASE Timers
  BY <1>1, TypeTimer, TypeCancelTimer DEF Timers
<1>2. CASE DropEmptyOrder
  BY <1>2, TypeStart
<1>3. CASE Progress
  BY <1>3, TypeStart, TypeComplete DEF Progress
<1>4. CASE Flags \/ manualTakeoverCallback \/ manualTakeoverCancelCallback \/ Restart
  BY <1>4, TypeOperator
<1>5. CASE VehicleReceives \/ StopTask \/ VehicleParked \/ VehicleEmergencyStop
  BY <1>5 DEF VehicleReceives, StopTask, VehicleParked, VehicleEmergencyStop,
     nodeVars, orderVars, currentVars, statusVars, delayVars, Silent, TypeOK
<1>6. CASE UNCHANGED vars
  BY <1>6 DEF vars, orderVars, currentVars, statusVars, delayVars, vehicleVars, TypeOK
<1> QED
  BY <1>1, <1>2, <1>3, <1>4, <1>5, <1>6 DEF Next

\* Every variable keeps its type, whatever the interleaving of callbacks,
\* failed requests, operator interventions and vehicle feedback.
THEOREM DispatchTypeCorrect == Spec => []TypeOK
BY TypeInit, TypeNext, PTL DEF Spec

-----------------------------------------------------------------------------
(* The order bookkeeping.  Each invariant leans on the others: what the      *)
(* server may close is the order executed (ExecutingFrontOrder), which is    *)
(* then out of the queue because it was there once (QueueIndexed), with the  *)
(* tasks the server sent (ProgressAddsUp).                                   *)

Bookkeeping ==
    /\ TypeOK
    /\ QueueIndexed
    /\ ExecutingFrontOrder
    /\ ProgressAddsUp
    /\ OnlyOpenOrdersQueued

\* Polling keeps the queue indexed, its front in place, and adds open orders.
LEMMA PollBookkeeping ==
    ASSUME TypeOK, QueueIndexed,
           NEW fresh \in FreshReplies, NEW broken \in BrokenOrders(fresh),
           postCheckAgvSchedulingOrder(fresh, broken)
    PROVE  /\ QueueIndexed'
           /\ QueuedCodes \subseteq QueuedCodes'
           /\ QueuedCodes' \subseteq QueuedCodes \cup openOrders
           /\ g_agvOrders # <<>> => /\ g_agvOrders' # <<>>
                                    /\ Head(g_agvOrders') = Head(g_agvOrders)
<1> DEFINE old == Len(g_agvOrders)
           new == Orders(fresh)
<1>1. /\ g_agvOrders \in Seq(AgvOrder)
      /\ DOMAIN g_agvOrders = 1..old
      /\ old \in Nat
  BY DEF TypeOK
<1>2. /\ new \in Seq(AgvOrder)
      /\ Len(new) = Len(fresh) /\ Len(fresh) \in Nat
      /\ \A i \in 1..Len(fresh) :
            /\ new[i].orderCode = fresh[i]
            /\ new[i].taskList = OrderTasks[fresh[i]]
            /\ fresh[i] \in openOrders /\ fresh[i] \notin g_orderCodes
      /\ \A i, j \in 1..Len(fresh) : fresh[i] = fresh[j] => i = j
      /\ DOMAIN fresh = 1..Len(fresh)
  <2>1. fresh \in Seq(OrderCodes) /\ new \in Seq(AgvOrder)
        /\ Len(new) = Len(fresh) /\ DOMAIN fresh = 1..Len(fresh)
    BY FreshReply
  <2>2. /\ \A i \in 1..Len(fresh) : fresh[i] \in openOrders \ g_orderCodes
        /\ \A i, j \in 1..Len(fresh) : fresh[i] = fresh[j] => i = j
        /\ \A i \in 1..Len(fresh) : /\ new[i].orderCode = fresh[i]
                                    /\ new[i].taskList = OrderTasks[fresh[i]]
    BY FreshReply
  <2>3. Len(fresh) \in Nat
    BY <2>1
  <2> HIDE DEF new
  <2>4. \A i \in 1..Len(fresh) : fresh[i] \in openOrders /\ fresh[i] \notin g_orderCodes
    BY <2>2
  <2> QED
    BY <2>1, <2>2, <2>3, <2>4
<1>3. /\ g_agvOrders' = g_agvOrders \o new
      /\ g_orderCodes' = g_orderCodes \cup {fresh[i] : i \in DOMAIN fresh} \cup broken
  BY DEF postCheckAgvSchedulingOrder
<1>4. /\ g_agvOrders' \in Seq(AgvOrder)
      /\ Len(g_agvOrders') = old + Len(fresh)
      /\ \A i \in 1..(old + Len(fresh)) :
            g_agvOrders'[i] = IF i <= old THEN g_agvOrders[i] ELSE new[i - old]
  <2>1. g_agvOrders \in Seq(AgvOrder) /\ new \in Seq(AgvOrder)
    BY <1>1, <1>2
  <2> HIDE DEF new
  <2>2. /\ g_agvOrders \o new \in Seq(AgvOrder)
        /\ Len(g_agvOrders \o new) = Len(g_agvOrders) + Len(new)
        /\ \A i \in 1..(Len(g_agvOrders) + Len(new)) :
              (g_agvOrders \o new)[i] =
                 IF i <= Len(g_agvOrders) THEN g_agvOrders[i]
                                          ELSE new[i - Len(g_agvOrders)]
    BY <2>1, ConcatProperties
  <2>3. Len(new) = Len(fresh)
    BY <1>2
  <2> QED
    BY <1>3, <2>2, <2>3
<1>5. DOMAIN g_agvOrders' = 1..(old + Len(fresh))
  BY <1>4
<1>6. /\ \A i \in 1..old : g_agvOrders[i].orderCode \in g_orderCodes
      /\ \A i \in 1..old : g_agvOrders[i].taskList = OrderTasks[g_agvOrders[i].orderCode]
      /\ \A i, j \in 1..old : g_agvOrders[i].orderCode = g_agvOrders[j].orderCode => i = j
  BY <1>1 DEF QueueIndexed, QueuedCodes
<1> HIDE DEF old, new
<1>7. ASSUME NEW i \in 1..(old + Len(fresh))
      PROVE  /\ i \in 1..old /\ g_agvOrders'[i] = g_agvOrders[i]
             \/ /\ i - old \in 1..Len(fresh)
                /\ g_agvOrders'[i].orderCode = fresh[i - old]
                /\ g_agvOrders'[i].taskList = OrderTasks[fresh[i - old]]
  <2>1. CASE i <= old
    BY <1>1, <1>4, <2>1
  <2>2. CASE ~(i <= old)
    <3>1. i - old \in 1..Len(fresh)
      BY <1>1, <1>2, <2>2
    <3> QED
      BY <1>2, <1>4, <2>2, <3>1
  <2> QED
    BY <2>1, <2>2
<1>8. \A i \in 1..old : i \in 1..(old + Len(fresh)) /\ g_agvOrders'[i] = g_agvOrders[i]
  BY <1>1, <1>2, <1>4
<1>9. ASSUME NEW i \in 1..(old + Len(fresh))
      PROVE  /\ g_agvOrders'[i].orderCode \in g_orderCodes'
             /\ g_agvOrders'[i].taskList = OrderTasks[g_agvOrders'[i].orderCode]
             /\ g_agvOrders'[i].orderCode \in QueuedCodes \cup openOrders
  <2>1. CASE i \in 1..old /\ g_agvOrders'[i] = g_agvOrders[i]
    <3>1. g_agvOrders[i].orderCode \in QueuedCodes
      BY <1>1, <2>1 DEF QueuedCodes
    <3> QED
      BY <1>3, <1>6, <2>1, <3>1
  <2>2. CASE /\ i - old \in 1..Len(fresh)
             /\ g_agvOrders'[i].orderCode = fresh[i - old]
             /\ g_agvOrders'[i].taskList = OrderTasks[fresh[i - old]]
    BY <1>2, <1>3, <2>2
  <2> QED
    BY <1>7, <2>1, <2>2
<1>10. ASSUME NEW i \in 1..(old + Len(fresh)), NEW j \in 1..(old + Len(fresh)),
              g_agvOrders'[i].orderCode = g_agvOrders'[j].orderCode
       PROVE  i = j
  <2>1. CASE i \in 1..old /\ j \in 1..old
    BY <1>6, <1>8, <1>10, <2>1
  <2>2. CASE i \notin 1..old /\ j \notin 1..old
    <3>1. i - old \in 1..Len(fresh) /\ j - old \in 1..Len(fresh)
          /\ fresh[i - old] = fresh[j - old]
      BY <1>7, <1>10, <2>2
    <3> QED
      BY <1>1, <1>2, <3>1
  <2>3. CASE i \in 1..old /\ j \notin 1..old
    BY <1>2, <1>6, <1>7, <1>8, <1>10, <2>3
  <2>4. CASE i \notin 1..old /\ j \in 1..old
    BY <1>2, <1>6, <1>7, <1>8, <1>10, <2>4
  <2> QED
    BY <2>1, <2>2, <2>3, <2>4
<1>11. QueueIndexed'
  BY <1>5, <1>9, <1>10 DEF QueueIndexed, QueuedCodes
<1>12. QueuedCodes \subseteq QueuedCodes'
  BY <1>1, <1>5, <1>8 DEF QueuedCodes
<1>13. QueuedCodes' \subseteq QueuedCodes \cup openOrders
  BY <1>5, <1>9 DEF QueuedCodes
<1>14. g_agvOrders # <<>> => /\ g_agvOrders' # <<>>
                             /\ Head(g_agvOrders') = Head(g_agvOrders)
  BY <1>1, <1>3, <1>4, <1>8 DEF old
<1> QED
  BY <1>11, <1>12, <1>13, <1>14

\* When the front order leaves, the rest stay indexed and its code is gone.
LEMMA LeaveBookkeeping ==
    ASSUME TypeOK, QueueIndexed, g_agvOrders # <<>>, LeaveQueue
    PROVE  /\ QueueIndexed'
           /\ QueuedCodes' = QueuedCodes \ {Head(g_agvOrders).orderCode}
<1> DEFINE n == Len(g_agvOrders)
           front == Head(g_agvOrders).orderCode
<1>1. /\ g_agvOrders \in Seq(AgvOrder)
      /\ DOMAIN g_agvOrders = 1..n
      /\ n \in Nat /\ n >= 1
      /\ front = g_agvOrders[1].orderCode
  BY DEF TypeOK
<1>2. /\ g_agvOrders' = Tail(g_agvOrders)
      /\ g_orderCodes' = g_orderCodes \ {front}
  BY DEF LeaveQueue
<1>3. /\ DOMAIN g_agvOrders' = 1..(n - 1)
      /\ \A i \in 1..(n - 1) : g_agvOrders'[i] = g_agvOrders[i + 1]
  BY <1>1, <1>2
<1>4. /\ \A i \in 1..n : g_agvOrders[i].orderCode \in g_orderCodes
      /\ \A i \in 1..n : g_agvOrders[i].taskList = OrderTasks[g_agvOrders[i].orderCode]
      /\ \A i, j \in 1..n : g_agvOrders[i].orderCode = g_agvOrders[j].orderCode => i = j
  BY <1>1 DEF QueueIndexed, QueuedCodes
<1> HIDE DEF n, front
<1>5. ASSUME NEW i \in 1..(n - 1)
      PROVE  /\ i + 1 \in 1..n /\ g_agvOrders'[i] = g_agvOrders[i + 1]
             /\ g_agvOrders'[i].orderCode # front
  <2>1. i + 1 \in 1..n /\ 1 \in 1..n /\ i + 1 # 1
    BY <1>1
  <2> QED
    BY <1>1, <1>3, <1>4, <2>1
<1>6. ASSUME NEW i \in 1..(n - 1), NEW j \in 1..(n - 1),
             g_agvOrders'[i].orderCode = g_agvOrders'[j].orderCode
      PROVE  i = j
  <2>1. i + 1 = j + 1
    BY <1>4, <1>5, <1>6
  <2> QED
    BY <1>1, <2>1
<1>7. QueueIndexed'
  <2>1. ASSUME NEW i \in 1..(n - 1)
        PROVE  /\ g_agvOrders'[i].orderCode \in g_orderCodes'
               /\ g_agvOrders'[i].taskList = OrderTasks[g_agvOrders'[i].orderCode]
    <3>1. /\ g_agvOrders[i + 1].orderCode \in g_orderCodes
          /\ g_agvOrders[i + 1].taskList = OrderTasks[g_agvOrders[i + 1].orderCode]
      BY <1>4, <1>5
    <3> QED
      BY <1>2, <1>5, <3>1
  <2> QED
    BY <1>3, <1>6, <2>1 DEF QueueIndexed, QueuedCodes
<1>8. QueuedCodes' \subseteq QueuedCodes \ {front}
  <2>1. ASSUME NEW i \in 1..(n - 1)
        PROVE  g_agvOrders'[i].orderCode \in QueuedCodes \ {front}
    <3>1. i + 1 \in DOMAIN g_agvOrders
      BY <1>1, <1>5
    <3>2. g_agvOrders[i + 1].orderCode \in QueuedCodes
      BY <3>1 DEF QueuedCodes
    <3> QED
      BY <1>5, <3>2
  <2> QED
    BY <1>3, <2>1 DEF QueuedCodes
<1>9. ASSUME NEW i \in 1..n, g_agvOrders[i].orderCode # front
      PROVE  g_agvOrders[i].orderCode \in QueuedCodes'
  <2>1. i - 1 \in 1..(n - 1) /\ (i - 1) + 1 = i
    BY <1>1, <1>9
  <2>2. g_agvOrders'[i - 1] = g_agvOrders[i]
    BY <1>3, <2>1
  <2> QED
    BY <1>3, <2>1, <2>2 DEF QueuedCodes
<1>10. QueuedCodes \ {front} \subseteq QueuedCodes'
  BY <1>1, <1>9 DEF QueuedCodes
<1> QED
  BY <1>7, <1>8, <1>10 DEF front

\* Moving the first of the tasks left to the tasks completed keeps their sum.
LEMMA CompleteOneTask ==
    ASSUME NEW done \in Seq(Task), NEW left \in Seq(Task), left # <<>>
    PROVE  /\ Append(done, Head(left)) \o Tail(left) = done \o left
           /\ Len(left) = 1 => Append(done, Head(left)) = done \o left
<1>1. Head(left) \in Task /\ Tail(left) \in Seq(Task) /\ <<Head(left)>> \in Seq(Task)
  BY HeadTailProperties
<1>2. <<Head(left)>> \o Tail(left) = left
  <2>1. /\ Len(left) \in Nat \ {0} /\ Len(Tail(left)) = Len(left) - 1
        /\ Head(left) = left[1]
        /\ \A i \in 1..(Len(left) - 1) : Tail(left)[i] = left[i + 1]
    BY HeadTailProperties, LenProperties
  <2>2. /\ <<Head(left)>> \o Tail(left) \in Seq(Task)
        /\ Len(<<Head(left)>> \o Tail(left)) = Len(left)
    BY <1>1, <2>1
  <2>3. ASSUME NEW i \in 1..Len(left)
        PROVE  (<<Head(left)>> \o Tail(left))[i] = left[i]
    <3>1. CASE i = 1
      BY <1>1, <2>1, <3>1
    <3>2. CASE i # 1
      <4>1. i - 1 \in 1..(Len(left) - 1) /\ (i - 1) + 1 = i
        BY <2>1, <3>2
      <4> QED
        BY <1>1, <2>1, <3>2, <4>1
    <3> QED
      BY <3>1, <3>2
  <2> QED
    BY <2>2, <2>3, SeqEqual
<1>3. Append(done, Head(left)) = done \o <<Head(left)>>
  BY <1>1, AppendIsConcat
<1>4. Append(done, Head(left)) \o Tail(left) = done \o left
  BY <1>1, <1>2, <1>3, ConcatAssociative
<1>5. ASSUME Len(left) = 1
      PROVE  Tail(left) = <<>> /\ Append(done, Head(left)) \in Seq(Task)
  <2>1. Len(Tail(left)) = 0
    BY <1>5, HeadTailProperties
  <2>2. Tail(left) = <<>>
    BY <1>1, <2>1, EmptySeq
  <2> QED
    BY <1>1, <2>2, AppendProperties
<1>6. Len(left) = 1 => Append(done, Head(left)) = done \o left
  BY <1>4, <1>5, ConcatEmptySeq
<1> QED
  BY <1>4, <1>6

\* What the server may close: nothing is closed by reports that are not final.
LEMMA NothingClosed ==
    ASSUME NEW rs, Send(rs), \A r \in rs : r.workingStatus # "70"
    PROVE  openOrders' = openOrders
BY DEF Send, ClosedBy

\* The initial state is in order.
LEMMA BookkeepingInit == Init => Bookkeeping
<1> SUFFICES ASSUME Init PROVE Bookkeeping
  OBVIOUS
<1>1. g_agvOrders = <<>> /\ g_agv_state = "IDLE" /\ QueuedCodes = {}
  BY DEF Init, NodeInit, QueuedCodes
<1> QED
  BY <1>1, TypeInit DEF Bookkeeping, QueueIndexed, ExecutingFrontOrder,
     ProgressAddsUp, OnlyOpenOrdersQueued

\* A poll, or a callback that leaves orders and executor alone.
LEMMA BookkeepingTimers ==
    ASSUME Bookkeeping, TypeOK', Timers
    PROVE  Bookkeeping'
<1>0. PICK fresh \in FreshReplies : \E broken \in BrokenOrders(fresh) :
         timerCallback(fresh, broken) \/ postCancelTimerCallback(fresh, broken)
  BY DEF Timers
<1>1. PICK broken \in BrokenOrders(fresh) :
         timerCallback(fresh, broken) \/ postCancelTimerCallback(fresh, broken)
  BY <1>0
<1>2. UNCHANGED <<g_agv_state, currentVars, openOrders>>
  BY <1>1 DEF timerCallback, postCancelTimerCallback, Silent
<1>3. UNCHANGED orderVars \/ postCheckAgvSchedulingOrder(fresh, broken)
  BY <1>1 DEF timerCallback, postCancelTimerCallback
<1>4. CASE UNCHANGED orderVars
  BY <1>2, <1>4 DEF Bookkeeping, QueueIndexed, QueuedCodes, ExecutingFrontOrder,
     ProgressAddsUp, OnlyOpenOrdersQueued, currentVars, orderVars
<1>5. CASE postCheckAgvSchedulingOrder(fresh, broken)
  <2>1. /\ QueueIndexed'
        /\ QueuedCodes' \subseteq QueuedCodes \cup openOrders
        /\ g_agvOrders # <<>> => /\ g_agvOrders' # <<>>
                                 /\ Head(g_agvOrders') = Head(g_agvOrders)
    BY <1>5, PollBookkeeping DEF Bookkeeping
  <2>2. OnlyOpenOrdersQueued'
    BY <1>2, <2>1 DEF Bookkeeping, OnlyOpenOrdersQueued
  <2>3. ExecutingFrontOrder'
    BY <1>2, <2>1 DEF Bookkeeping, ExecutingFrontOrder, currentVars
  <2>4. ProgressAddsUp'
    BY <1>2 DEF Bookkeeping, ProgressAddsUp, currentVars
  <2> QED
    BY <2>1, <2>2, <2>3, <2>4 DEF Bookkeeping
<1> QED
  BY <1>3, <1>4, <1>5

\* Starting the front order, or dropping it when it has no tasks.
LEMMA BookkeepingStart ==
    ASSUME Bookkeeping, TypeOK', DropEmptyOrder \/ dispatchNextOrder
    PROVE  Bookkeeping'
<1>1. CASE DropEmptyOrder
  <2>1. /\ g_agvOrders # <<>> /\ LeaveQueue
        /\ g_agv_state' = "IDLE" /\ openOrders' = openOrders
    BY <1>1 DEF DropEmptyOrder, Silent
  <2>2. QueueIndexed' /\ QueuedCodes' \subseteq QueuedCodes
    BY <2>1, LeaveBookkeeping DEF Bookkeeping
  <2> QED
    BY <2>1, <2>2 DEF Bookkeeping, ExecutingFrontOrder, ProgressAddsUp, OnlyOpenOrdersQueued
<1>2. CASE dispatchNextOrder
  <2>1. /\ UNCHANGED orderVars
        /\ g_agvOrders # <<>> /\ Head(g_agvOrders).taskList # <<>>
        /\ currentOrder' = Head(g_agvOrders)
        /\ currentTask' = Head(Head(g_agvOrders).taskList)
        /\ if_order_ok' = FALSE /\ executed' = <<>>
    BY <1>2 DEF dispatchNextOrder
  <2>2. openOrders' = openOrders
    <3>1. \A r \in postReportAgvTaskDetail(currentOrder'.orderCode, currentTask',
                                           currentTask', "30", "20") :
             r.workingStatus # "70"
      BY DEF postReportAgvTaskDetail
    <3> QED
      BY <1>2, <3>1, NothingClosed DEF dispatchNextOrder
  <2>3. QueueIndexed' /\ OnlyOpenOrdersQueued'
    BY <2>1, <2>2 DEF Bookkeeping, QueueIndexed, QueuedCodes, OnlyOpenOrdersQueued, orderVars
  <2>4. ExecutingFrontOrder'
    BY <2>1 DEF ExecutingFrontOrder, orderVars
  <2>5. ProgressAddsUp'
    <3>1. /\ Head(g_agvOrders) = g_agvOrders[1] /\ 1 \in DOMAIN g_agvOrders
          /\ Head(g_agvOrders) \in AgvOrder
      BY <2>1, HeadTailProperties DEF Bookkeeping, TypeOK
    <3>2. currentOrder'.taskList = OrderTasks[currentOrder'.orderCode]
      BY <2>1, <3>1 DEF Bookkeeping, QueueIndexed
    <3>3. currentOrder'.taskList \in Seq(Task)
      BY <2>1, <3>1 DEF AgvOrder
    <3> QED
      BY <2>1, <3>2, <3>3, ConcatEmptySeq DEF ProgressAddsUp
  <2> QED
    BY <2>3, <2>4, <2>5 DEF Bookkeeping
<1> QED
  BY <1>1, <1>2

\* A confirmation that leaves tasks to do.
LEMMA BookkeepingCompleteNext ==
    ASSUME Bookkeeping, TypeOK', taskCompleteNext
    PROVE  Bookkeeping'
<1>1. /\ FinishCurrentTask
      /\ currentOrder.taskList \in Seq(Task) /\ currentOrder.taskList # <<>>
      /\ executed \in Seq(Task)
      /\ g_agv_state = "EXECUTING" /\ g_agv_state' = "EXECUTING"
      /\ UNCHANGED orderVars /\ if_order_ok' = FALSE
  BY DEF taskCompleteNext, FinishCurrentTask, TaskConfirmed, Bookkeeping, TypeOK
<1>2. /\ currentOrder'.orderCode = currentOrder.orderCode
      /\ currentOrder'.taskList = Tail(currentOrder.taskList)
      /\ currentTask' = Head(currentOrder'.taskList)
      /\ currentOrder'.taskList # <<>>
      /\ executed' = Append(executed, Head(currentOrder.taskList))
  <2>1. currentOrder \in [orderCode : OrderCodes \cup {NoOrder}, taskList : Seq(Task)]
    BY DEF Bookkeeping, TypeOK
  <2>2. currentOrder'.taskList # <<>>
    BY <1>1, <2>1, TypeConfirmed DEF taskCompleteNext, Bookkeeping
  <2> QED
    BY <2>1, <2>2 DEF taskCompleteNext, FinishCurrentTask, RemainingTasks
<1>3. openOrders' = openOrders
  <2>1. \A r \in CompletionReport
                   \cup postReportAgvTaskDetail(currentOrder.orderCode, currentTask',
                                                currentTask', "30", "20") :
           r.workingStatus # "70"
    BY DEF CompletionReport, postReportAgvTaskDetail
  <2> QED
    BY <2>1, NothingClosed DEF taskCompleteNext
<1>4. QueueIndexed' /\ OnlyOpenOrdersQueued'
  BY <1>1, <1>3 DEF Bookkeeping, QueueIndexed, QueuedCodes, OnlyOpenOrdersQueued, orderVars
<1>5. ExecutingFrontOrder'
  BY <1>1, <1>2 DEF Bookkeeping, ExecutingFrontOrder, orderVars
<1>6. ProgressAddsUp'
  BY <1>1, <1>2, CompleteOneTask DEF Bookkeeping, ProgressAddsUp
<1> QED
  BY <1>4, <1>5, <1>6 DEF Bookkeeping

\* What completing the last task does: the order was at the front and leaves,
\* all its tasks are done, and it is the only order that can be closed.
LEMMA LastTaskOfOrder ==
    ASSUME Bookkeeping, taskCompleteLast
    PROVE  /\ g_agvOrders # <<>> /\ LeaveQueue
           /\ currentOrder.orderCode = Head(g_agvOrders).orderCode
           /\ executed' = OrderTasks[currentOrder.orderCode]
           /\ openOrders' \subseteq openOrders
           /\ openOrders \ openOrders' \subseteq {currentOrder.orderCode}
<1>1. /\ g_agv_state = "EXECUTING"
      /\ currentOrder.taskList \in Seq(Task) /\ currentOrder.taskList # <<>>
      /\ executed \in Seq(Task)
      /\ Len(currentOrder.taskList) = 1
      /\ executed' = Append(executed, Head(currentOrder.taskList))
  BY DEF taskCompleteLast, FinishCurrentTask, TaskConfirmed, Bookkeeping, TypeOK
<1>2. /\ g_agvOrders # <<>>
      /\ currentOrder.orderCode = Head(g_agvOrders).orderCode
      /\ executed \o currentOrder.taskList = OrderTasks[currentOrder.orderCode]
  BY <1>1 DEF Bookkeeping, ExecutingFrontOrder, ProgressAddsUp
<1>3. LeaveQueue
  BY <1>2 DEF taskCompleteLast
<1>4. executed' = OrderTasks[currentOrder.orderCode]
  BY <1>1, <1>2, CompleteOneTask
<1> DEFINE rs == CompletionReport
                   \cup postReportAgvTaskDetail(currentOrder.orderCode, currentTask,
                                                last_task', "70", "70")
<1>5. \A r \in rs : r.orderCode = currentOrder.orderCode
  BY DEF CompletionReport, postReportAgvTaskDetail
<1>6. Send(rs)
  BY DEF taskCompleteLast
<1> HIDE DEF rs
<1>7. PICK received \in SUBSET rs : openOrders' = openOrders \ ClosedBy(received)
  BY <1>6 DEF Send
<1>8. ClosedBy(received) \subseteq {currentOrder.orderCode}
  BY <1>5, <1>7 DEF ClosedBy
<1> QED
  BY <1>2, <1>3, <1>4, <1>7, <1>8

\* The confirmation of the last task.
LEMMA BookkeepingCompleteLast ==
    ASSUME Bookkeeping, TypeOK', taskCompleteLast
    PROVE  Bookkeeping'
<1>1. /\ g_agvOrders # <<>> /\ LeaveQueue
      /\ currentOrder.orderCode = Head(g_agvOrders).orderCode
      /\ openOrders \ openOrders' \subseteq {currentOrder.orderCode}
  BY LastTaskOfOrder
<1>2. /\ QueueIndexed'
      /\ QueuedCodes' = QueuedCodes \ {Head(g_agvOrders).orderCode}
  BY <1>1, LeaveBookkeeping DEF Bookkeeping
<1>3. OnlyOpenOrdersQueued'
  BY <1>1, <1>2 DEF Bookkeeping, OnlyOpenOrdersQueued
<1>4. g_agv_state' = "IDLE"
  BY DEF taskCompleteLast
<1> QED
  BY <1>2, <1>3, <1>4 DEF Bookkeeping, ExecutingFrontOrder, ProgressAddsUp

\* The status flags report, and close nothing.
LEMMA FlagsCloseNothing ==
    ASSUME Flags
    PROVE  /\ openOrders' = openOrders
           /\ UNCHANGED <<g_agv_state, orderVars, currentVars>>
<1>1. PICK flags \in FlagInputs : statusFlagsCallback(flags[1], flags[2])
  BY DEF Flags
<1>2. \A w \in {"80", "50", "30"} : \A r \in FlagsReport(w) : r.workingStatus # "70"
  BY DEF FlagsReport, postReportAgvTaskDetail
<1>3. Send(FlagsReport("80")) \/ Send(FlagsReport("50")) \/ Send(FlagsReport("30"))
  BY <1>1 DEF statusFlagsCallback
<1>4. openOrders' = openOrders
  BY <1>2, <1>3, NothingClosed
<1> QED
  BY <1>1, <1>4 DEF statusFlagsCallback

\* The operator and the status flags.
LEMMA BookkeepingOperator ==
    ASSUME Bookkeeping, TypeOK',
           Flags \/ manualTakeoverCallback \/ manualTakeoverCancelCallback \/ Restart
    PROVE  Bookkeeping'
<1>1. CASE Flags
  BY <1>1, FlagsCloseNothing DEF Bookkeeping, QueueIndexed, QueuedCodes,
     ExecutingFrontOrder, ProgressAddsUp, OnlyOpenOrdersQueued, orderVars, currentVars
<1>2. CASE manualTakeoverCallback \/ Restart
  <2>1. g_agvOrders' = <<>> /\ g_agv_state' = "IDLE"
    BY <1>2 DEF manualTakeoverCallback, Restart
  <2>2. QueuedCodes' = {}
    BY <2>1 DEF QueuedCodes
  <2> QED
    BY <2>1, <2>2 DEF Bookkeeping, QueueIndexed, ExecutingFrontOrder, ProgressAddsUp,
       OnlyOpenOrdersQueued
<1>3. CASE manualTakeoverCancelCallback
  <2>1. g_agv_state' = "IDLE" /\ UNCHANGED orderVars /\ openOrders' = openOrders
    BY <1>3 DEF manualTakeoverCancelCallback, Silent
  <2> QED
    BY <2>1 DEF Bookkeeping, QueueIndexed, QueuedCodes, ExecutingFrontOrder,
       ProgressAddsUp, OnlyOpenOrdersQueued, orderVars
<1> QED
  BY <1>1, <1>2, <1>3

\* The vehicle and stuttering leave the bookkeeping alone.
LEMMA BookkeepingVehicle ==
    ASSUME Bookkeeping, TypeOK',
           VehicleReceives \/ StopTask \/ VehicleParked \/ VehicleEmergencyStop
             \/ UNCHANGED vars
    PROVE  Bookkeeping'
<1>1. UNCHANGED <<g_agv_state, orderVars, currentVars, openOrders>>
  BY DEF VehicleReceives, StopTask, VehicleParked, VehicleEmergencyStop, Silent, nodeVars, vars
<1> QED
  BY <1>1 DEF Bookkeeping, QueueIndexed, QueuedCodes, ExecutingFrontOrder,
     ProgressAddsUp, OnlyOpenOrdersQueued, orderVars, currentVars

\* The bookkeeping is inductive: one step per action of the node and its
\* surroundings.
LEMMA BookkeepingNext == Bookkeeping /\ [Next]_vars => Bookkeeping'
<1> SUFFICES ASSUME Bookkeeping, [Next]_vars PROVE Bookkeeping'
  OBVIOUS
<1>1. TypeOK'
  BY TypeNext DEF Bookkeeping
<1>2. CASE Timers
  BY <1>1, <1>2, BookkeepingTimers
<1>3. CASE DropEmptyOrder \/ dispatchNextOrder
  BY <1>1, <1>3, BookkeepingStart
<1>4. CASE taskCompleteNext
  BY <1>1, <1>4, BookkeepingCompleteNext
<1>5. CASE taskCompleteLast
  BY <1>1, <1>5, BookkeepingCompleteLast
<1>6. CASE Flags \/ manualTakeoverCallback \/ manualTakeoverCancelCallback \/ Restart
  BY <1>1, <1>6, BookkeepingOperator
<1>7. CASE VehicleReceives \/ StopTask \/ VehicleParked \/ VehicleEmergencyStop
             \/ UNCHANGED vars
  BY <1>1, <1>7, BookkeepingVehicle
<1> QED
  BY <1>2, <1>3, <1>4, <1>5, <1>6, <1>7 DEF Next, Progress

\* The bookkeeping of orders and tasks is in order at all times: the inductive
\* invariant that the theorems below read off.
THEOREM BookkeepingCorrect == Spec => []Bookkeeping
BY BookkeepingInit, BookkeepingNext, PTL DEF Spec

\* No order is queued twice, however often the server offers it: the index the
\* poll consults covers the queue at all times.
THEOREM QueueIndexedAlways == Spec => []QueueIndexed
<1>1. Bookkeeping => QueueIndexed
  BY DEF Bookkeeping
<1> QED
  BY <1>1, BookkeepingCorrect, PTL

\* The node executes the order at the front of its queue, whatever polls,
\* cancels and takeovers come between two feedback frames.
THEOREM ExecutingFrontOrderAlways == Spec => []ExecutingFrontOrder
<1>1. Bookkeeping => ExecutingFrontOrder
  BY DEF Bookkeeping
<1> QED
  BY <1>1, BookkeepingCorrect, PTL

\* No task of an order is skipped, repeated or swapped.
THEOREM ProgressAddsUpAlways == Spec => []ProgressAddsUp
<1>1. Bookkeeping => ProgressAddsUp
  BY DEF Bookkeeping
<1> QED
  BY <1>1, BookkeepingCorrect, PTL

\* No order the server was told is finished is still queued.
THEOREM OnlyOpenOrdersQueuedAlways == Spec => []OnlyOpenOrdersQueued
<1>1. Bookkeeping => OnlyOpenOrdersQueued
  BY DEF Bookkeeping
<1> QED
  BY <1>1, BookkeepingCorrect, PTL

-----------------------------------------------------------------------------
(* What a step may never do *)

\* Steps that keep the queue or only let it grow take no order out, and steps
\* without a final report close none.
LEMMA OrdersStay ==
    ASSUME Bookkeeping, Timers \/ dispatchNextOrder \/ taskCompleteNext \/ Flags
                          \/ manualTakeoverCancelCallback \/ VehicleReceives
                          \/ StopTask \/ VehicleParked \/ VehicleEmergencyStop
                          \/ UNCHANGED vars
    PROVE  QueuedCodes \subseteq QueuedCodes' /\ openOrders' = openOrders
<1>1. CASE Timers
  <2>0. PICK fresh \in FreshReplies : \E broken \in BrokenOrders(fresh) :
           timerCallback(fresh, broken) \/ postCancelTimerCallback(fresh, broken)
    BY <1>1 DEF Timers
  <2>1. PICK broken \in BrokenOrders(fresh) :
           timerCallback(fresh, broken) \/ postCancelTimerCallback(fresh, broken)
    BY <2>0
  <2>2. /\ openOrders' = openOrders
        /\ UNCHANGED orderVars \/ postCheckAgvSchedulingOrder(fresh, broken)
    BY <2>1 DEF timerCallback, postCancelTimerCallback, Silent
  <2>3. CASE UNCHANGED orderVars
    BY <2>2, <2>3 DEF orderVars, QueuedCodes
  <2>4. CASE postCheckAgvSchedulingOrder(fresh, broken)
    BY <2>2, <2>4, PollBookkeeping DEF Bookkeeping
  <2> QED
    BY <2>2, <2>3, <2>4
<1>2. CASE dispatchNextOrder
  <2>1. \A r \in postReportAgvTaskDetail(currentOrder'.orderCode, currentTask',
                                         currentTask', "30", "20") :
           r.workingStatus # "70"
    BY DEF postReportAgvTaskDetail
  <2> QED
    BY <1>2, <2>1, NothingClosed DEF dispatchNextOrder, orderVars, QueuedCodes
<1>3. CASE taskCompleteNext
  <2>1. \A r \in CompletionReport
                   \cup postReportAgvTaskDetail(currentOrder.orderCode, currentTask',
                                                currentTask', "30", "20") :
           r.workingStatus # "70"
    BY DEF CompletionReport, postReportAgvTaskDetail
  <2> QED
    BY <1>3, <2>1, NothingClosed DEF taskCompleteNext, orderVars, QueuedCodes
<1>4. CASE Flags
  BY <1>4, FlagsCloseNothing DEF orderVars, QueuedCodes
<1>5. CASE manualTakeoverCancelCallback
  BY <1>5 DEF manualTakeoverCancelCallback, Silent, orderVars, QueuedCodes
<1>6. CASE VehicleReceives \/ StopTask \/ VehicleParked \/ VehicleEmergencyStop
             \/ UNCHANGED vars
  BY <1>6 DEF VehicleReceives, StopTask, VehicleParked, VehicleEmergencyStop, Silent,
     nodeVars, vars, orderVars, QueuedCodes
<1> QED
  BY <1>1, <1>2, <1>3, <1>4, <1>5, <1>6

\* Whatever requests are lost, the server sees an order closed only after all
\* its tasks were confirmed in sequence, or through a takeover.
THEOREM ClosedOnlyWhenDoneCorrect == Spec => ClosedOnlyWhenDone
<1> DEFINE Step == \A o \in openOrders \ openOrders' :
                      manualTakeoverCallback \/ executed' = OrderTasks[o]
<1>1. ASSUME Bookkeeping, [Next]_vars PROVE [Step]_vars
  <2>1. CASE \/ Timers \/ dispatchNextOrder \/ taskCompleteNext \/ Flags
             \/ manualTakeoverCancelCallback \/ VehicleReceives
             \/ StopTask \/ VehicleParked \/ VehicleEmergencyStop \/ UNCHANGED vars
    BY <1>1, <2>1, OrdersStay
  <2>2. CASE DropEmptyOrder \/ Restart
    BY <2>2 DEF DropEmptyOrder, Restart, Silent
  <2>3. CASE taskCompleteLast
    BY <1>1, <2>3, LastTaskOfOrder
  <2>4. CASE manualTakeoverCallback
    BY <2>4
  <2> QED
    BY <1>1, <2>1, <2>2, <2>3, <2>4 DEF Next, Progress
<1> QED
  BY <1>1, BookkeepingCorrect, PTL DEF Spec, ClosedOnlyWhenDone

\* No order is dropped from the queue half done: it leaves from the front,
\* with every task confirmed, unless the operator took over or restarted.
THEOREM LeavesOnlyWhenDoneCorrect == Spec => LeavesOnlyWhenDone
<1> DEFINE Step == \A o \in QueuedCodes \ QueuedCodes' :
                      \/ manualTakeoverCallback
                      \/ Restart
                      \/ o = Head(g_agvOrders).orderCode /\ executed' = OrderTasks[o]
<1>1. ASSUME Bookkeeping, [Next]_vars PROVE [Step]_vars
  <2>1. CASE \/ Timers \/ dispatchNextOrder \/ taskCompleteNext \/ Flags
             \/ manualTakeoverCancelCallback \/ VehicleReceives
             \/ StopTask \/ VehicleParked \/ VehicleEmergencyStop \/ UNCHANGED vars
    BY <1>1, <2>1, OrdersStay
  <2>2. CASE DropEmptyOrder
    <3>1. /\ g_agvOrders # <<>> /\ LeaveQueue
          /\ Head(g_agvOrders).taskList = <<>> /\ executed' = <<>>
      BY <2>2 DEF DropEmptyOrder
    <3>2. QueuedCodes' = QueuedCodes \ {Head(g_agvOrders).orderCode}
      BY <1>1, <3>1, LeaveBookkeeping DEF Bookkeeping
    <3>3. Head(g_agvOrders) = g_agvOrders[1] /\ 1 \in DOMAIN g_agvOrders
      BY <1>1, <3>1 DEF Bookkeeping, TypeOK
    <3>4. Head(g_agvOrders).taskList = OrderTasks[Head(g_agvOrders).orderCode]
      BY <1>1, <3>3 DEF Bookkeeping, QueueIndexed
    <3> QED
      BY <3>1, <3>2, <3>4
  <2>3. CASE taskCompleteLast
    <3>1. /\ g_agvOrders # <<>> /\ LeaveQueue
          /\ executed' = OrderTasks[Head(g_agvOrders).orderCode]
      BY <1>1, <2>3, LastTaskOfOrder
    <3>2. QueuedCodes' = QueuedCodes \ {Head(g_agvOrders).orderCode}
      BY <1>1, <3>1, LeaveBookkeeping DEF Bookkeeping
    <3> QED
      BY <3>1, <3>2
  <2>4. CASE manualTakeoverCallback \/ Restart
    BY <2>4
  <2> QED
    BY <1>1, <2>1, <2>2, <2>3, <2>4 DEF Next, Progress
<1> QED
  BY <1>1, BookkeepingCorrect, PTL DEF Spec, LeavesOnlyWhenDone

-----------------------------------------------------------------------------
(* The cancel delay, and the reports *)

\* While polling is suspended the timer that resumes it is armed: the flag and
\* the timer are set together, and cleared together.
THEOREM DelayHasEndAlways == Spec => []DelayHasEnd
<1>1. Init => DelayHasEnd
  BY DEF Init, NodeInit, DelayHasEnd
<1>2. ASSUME DelayHasEnd, [Next]_vars PROVE DelayHasEnd'
  <2>1. CASE Timers
    <3>1. CASE UNCHANGED delayVars
      BY <1>2, <3>1 DEF delayVars, DelayHasEnd
    <3>2. CASE EndDelay
      BY <3>2 DEF EndDelay, DelayHasEnd
    <3> QED
      BY <2>1, <3>1, <3>2 DEF Timers, timerCallback, postCancelTimerCallback
  <2>2. CASE manualTakeoverCancelCallback \/ Restart
    BY <2>2 DEF manualTakeoverCancelCallback, Restart, DelayHasEnd
  <2>3. CASE DropEmptyOrder \/ Progress
    BY <1>2, <2>3 DEF DropEmptyOrder, Progress, dispatchNextOrder, taskCompleteNext,
       taskCompleteLast, FinishCurrentTask, delayVars, DelayHasEnd
  <2>4. CASE Flags \/ manualTakeoverCallback
    BY <1>2, <2>4 DEF Flags, statusFlagsCallback, manualTakeoverCallback, delayVars, DelayHasEnd
  <2>5. CASE VehicleReceives \/ StopTask \/ VehicleParked \/ VehicleEmergencyStop
    BY <1>2, <2>5 DEF VehicleReceives, StopTask, VehicleParked, VehicleEmergencyStop,
       nodeVars, delayVars, DelayHasEnd
  <2>6. CASE UNCHANGED vars
    BY <1>2, <2>6 DEF vars, delayVars, DelayHasEnd
  <2> QED
    BY <1>2, <2>1, <2>2, <2>3, <2>4, <2>5, <2>6 DEF Next
<1> QED
  BY <1>1, <1>2, PTL DEF Spec

\* While there is a current task the flag that makes a report name the task
\* before it is not set.
NoneConfirmed == currentTask # NoTask => ~if_order_ok

\* The flag is set where the current task is cleared, and cleared where a new
\* one is set; a takeover and its cancellation leave it as it is.
LEMMA NoneConfirmedNext ==
    ASSUME NoneConfirmed, [Next]_vars
    PROVE  NoneConfirmed'
<1>1. CASE Timers
  BY <1>1 DEF Timers, timerCallback, postCancelTimerCallback, currentVars, NoneConfirmed
<1>2. CASE dispatchNextOrder \/ taskCompleteNext \/ taskCompleteLast
  BY <1>2 DEF dispatchNextOrder, taskCompleteNext, taskCompleteLast, NoneConfirmed
<1>3. CASE DropEmptyOrder
  BY <1>3 DEF DropEmptyOrder, NoneConfirmed
<1>4. CASE Flags
  BY <1>4 DEF Flags, statusFlagsCallback, currentVars, NoneConfirmed
<1>5. CASE manualTakeoverCallback \/ Restart
  BY <1>5 DEF manualTakeoverCallback, Restart, NoneConfirmed
<1>6. CASE manualTakeoverCancelCallback
  <2>1. currentTask = NoTask => currentTask' = NoTask
    BY <1>6 DEF manualTakeoverCancelCallback
  <2>2. if_order_ok' = if_order_ok
    BY <1>6 DEF manualTakeoverCancelCallback
  <2> QED
    BY <2>1, <2>2 DEF NoneConfirmed
<1>7. CASE \/ VehicleReceives \/ StopTask \/ VehicleParked \/ VehicleEmergencyStop
           \/ UNCHANGED vars
  BY <1>7 DEF VehicleReceives, StopTask, VehicleParked, VehicleEmergencyStop,
     nodeVars, vars, currentVars, NoneConfirmed
<1> QED
  BY <1>1, <1>2, <1>3, <1>4, <1>5, <1>6, <1>7 DEF Next, Progress

\* What ReportsTruthful asks of one report.
Truthful(r) ==
    /\ r.taskStatus = "70" => /\ r.orderCode = currentOrder.orderCode
                             /\ r.task = Head(currentOrder.taskList)
    /\ r.taskStatus = "20" => /\ r.orderCode = currentOrder'.orderCode
                             /\ r.task = currentTask'

\* A confirmation reports the task just finished under the current order: the
\* current task is the first of the list, whichever of the two is named.
LEMMA CompletionTruthful ==
    ASSUME Bookkeeping, FinishCurrentTask, NEW r \in CompletionReport
    PROVE  Truthful(r)
<1>1. /\ currentTask = Head(currentOrder.taskList)
      /\ last_task' = Head(currentOrder.taskList)
  BY DEF Bookkeeping, ExecutingFrontOrder, FinishCurrentTask, TaskConfirmed
<1>2. r.taskStatus = "70" /\ r.orderCode = currentOrder.orderCode
  BY DEF CompletionReport, postReportAgvTaskDetail
<1>3. r.task = Head(currentOrder.taskList)
  BY <1>1 DEF CompletionReport, postReportAgvTaskDetail
<1> QED
  BY <1>2, <1>3 DEF Truthful

\* A task announced to the server is the current one after the step.
LEMMA AnnouncedTruthful ==
    ASSUME NEW working,
           NEW r \in postReportAgvTaskDetail(currentOrder'.orderCode, currentTask',
                                             currentTask', working, "20")
    PROVE  Truthful(r)
BY DEF postReportAgvTaskDetail, Truthful

\* What the server is told names the right task of the right order, whatever
\* the handlers have left in the variables a report is built from.
THEOREM ReportsTruthfulCorrect == Spec => ReportsTruthful
<1> DEFINE Step == manualTakeoverCallback \/ \A r \in reports' : Truthful(r)
<1>1. Init => NoneConfirmed
  BY DEF Init, NodeInit, NoneConfirmed
<1>2. ASSUME Bookkeeping, NoneConfirmed, [Next]_vars PROVE [Step]_vars
  <2>1. CASE reports' = {}
    BY <2>1
  <2>2. CASE dispatchNextOrder
    <3>1. reports' = postReportAgvTaskDetail(currentOrder'.orderCode, currentTask',
                                             currentTask', "30", "20")
      BY <2>2 DEF dispatchNextOrder, Send
    <3> QED
      BY <3>1, AnnouncedTruthful
  <2>3. CASE taskCompleteNext
    <3>1. reports' = CompletionReport
                       \cup postReportAgvTaskDetail(currentOrder.orderCode, currentTask',
                                                    currentTask', "30", "20")
      BY <2>3 DEF taskCompleteNext, Send
    <3>2. currentOrder'.orderCode = currentOrder.orderCode
      BY <1>2, <2>3 DEF taskCompleteNext, Bookkeeping, TypeOK
    <3>3. FinishCurrentTask
      BY <2>3 DEF taskCompleteNext
    <3>4. ASSUME NEW r \in reports' PROVE Truthful(r)
      <4>1. CASE r \in CompletionReport
        BY <1>2, <3>3, <4>1, CompletionTruthful
      <4>2. CASE r \in postReportAgvTaskDetail(currentOrder'.orderCode, currentTask',
                                               currentTask', "30", "20")
        BY <4>2, AnnouncedTruthful
      <4> QED
        BY <3>1, <3>2, <3>4, <4>1, <4>2
    <3> QED
      BY <3>4
  <2>4. CASE taskCompleteLast
    <3>1. reports' = CompletionReport
                       \cup postReportAgvTaskDetail(currentOrder.orderCode, currentTask,
                                                    last_task', "70", "70")
      BY <2>4 DEF taskCompleteLast, Send
    <3>2. FinishCurrentTask
      BY <2>4 DEF taskCompleteLast
    <3>3. ASSUME NEW r \in reports' PROVE Truthful(r)
      <4>1. CASE r \in CompletionReport
        BY <1>2, <3>2, <4>1, CompletionTruthful
      <4>2. CASE r \in postReportAgvTaskDetail(currentOrder.orderCode, currentTask,
                                               last_task', "70", "70")
        <5>1. /\ r.taskStatus = "70" /\ r.orderCode = currentOrder.orderCode
              /\ r.task = last_task'
          BY <4>2 DEF postReportAgvTaskDetail
        <5>2. last_task' = Head(currentOrder.taskList)
          BY <3>2 DEF FinishCurrentTask
        <5> QED
          BY <5>1, <5>2 DEF Truthful
      <4> QED
        BY <3>1, <3>3, <4>1, <4>2
    <3> QED
      BY <3>3
  <2>5. CASE Flags
    <3>1. UNCHANGED <<currentOrder, currentTask>>
      BY <2>5 DEF Flags, statusFlagsCallback, currentVars
    <3>2. \E working : reports' = FlagsReport(working)
      BY <2>5 DEF Flags, statusFlagsCallback, Send
    <3>3. PICK working : reports' = FlagsReport(working)
      BY <3>2
    <3>4. FlagsReport(working) = {} \/
             FlagsReport(working) = postReportAgvTaskDetail(currentOrder'.orderCode,
                                       currentTask', currentTask', working, "20")
      BY <1>2, <3>1 DEF FlagsReport, postReportAgvTaskDetail, NoneConfirmed
    <3> QED
      BY <3>3, <3>4, AnnouncedTruthful
  <2>6. CASE manualTakeoverCallback
    BY <2>6
  <2>7. CASE Timers
    <3>1. Silent
      BY <2>7 DEF Timers, timerCallback, postCancelTimerCallback
    <3> QED
      BY <2>1, <3>1 DEF Silent
  <2>8. CASE \/ DropEmptyOrder \/ manualTakeoverCancelCallback \/ Restart \/ VehicleReceives
             \/ StopTask \/ VehicleParked \/ VehicleEmergencyStop
    <3>1. Silent
      BY <2>8 DEF DropEmptyOrder, manualTakeoverCancelCallback, Restart, VehicleReceives,
         StopTask, VehicleParked, VehicleEmergencyStop
    <3> QED
      BY <2>1, <3>1 DEF Silent
  <2>9. CASE UNCHANGED vars
    BY <2>9
  <2> QED
    BY <1>2, <2>2, <2>3, <2>4, <2>5, <2>6, <2>7, <2>8, <2>9 DEF Next, Progress
<1>3. Spec => []NoneConfirmed
  BY <1>1, NoneConfirmedNext, PTL DEF Spec
<1>4. [][Step]_vars <=> ReportsTruthful
  BY DEF Truthful, ReportsTruthful
<1> QED
  BY <1>2, <1>3, <1>4, BookkeepingCorrect, PTL DEF Spec

-----------------------------------------------------------------------------
(* The vehicle *)

\* What a poll publishes is a code of the map, and what the vehicle works on is
\* one that was published: the dispatch node drives the abstract vehicle that
\* the firmware implements.
THEOREM DrivesVehicleCorrect == Spec => DrivesVehicle
<1>1. Init => V!Init
  BY DEF Init, V!Init
<1>2. ASSUME TypeOK, [Next]_vars PROVE [V!Next]_V!vehicle
  <2>1. CASE Timers
    <3>1. UNCHANGED <<taskseq, newAGVtaskover>>
      BY <2>1 DEF Timers, timerCallback, postCancelTimerCallback, vehicleVars
    <3>2. task_sequence_request' \in Codes \/ UNCHANGED task_sequence_request
      <4>1. ASSUME NEW t, publishOneTask(t)
            PROVE  task_sequence_request' \in Codes \/ UNCHANGED task_sequence_request
        BY <4>1 DEF publishOneTask, Codes
      <4> QED
        BY <2>1, <4>1 DEF Timers, timerCallback, postCancelTimerCallback
    <3> QED
      BY <3>1, <3>2 DEF V!Next, V!Publish, V!vehicle
  <2>2. CASE VehicleReceives
    <3>1. task_sequence_request \in Codes
      BY <1>2, <2>2 DEF VehicleReceives, TypeOK
    <3> QED
      BY <2>2, <3>1 DEF VehicleReceives, V!Next, V!Receive
  <2>3. CASE StopTask
    <3>1. taskseq \in Codes
      BY <1>2, <2>3 DEF StopTask, TypeOK
    <3> QED
      BY <2>3, <3>1 DEF StopTask, V!Next, V!Complete
  <2>4. CASE VehicleParked
    BY <2>4 DEF VehicleParked, V!Next, V!Park
  <2>5. CASE VehicleEmergencyStop
    BY <2>5 DEF VehicleEmergencyStop, V!Next, V!EmergencyStop
  <2>6. CASE DropEmptyOrder \/ Progress
    BY <2>6 DEF DropEmptyOrder, Progress, dispatchNextOrder, taskCompleteNext,
       taskCompleteLast, FinishCurrentTask, vehicleVars, V!vehicle
  <2>7. CASE Flags \/ manualTakeoverCallback \/ manualTakeoverCancelCallback \/ Restart
    BY <2>7 DEF Flags, statusFlagsCallback, manualTakeoverCallback,
       manualTakeoverCancelCallback, Restart, vehicleVars, V!vehicle
  <2>8. CASE UNCHANGED vars
    BY <2>8 DEF vars, vehicleVars, V!vehicle
  <2> QED
    BY <1>2, <2>1, <2>2, <2>3, <2>4, <2>5, <2>6, <2>7, <2>8 DEF Next
<1> QED
  BY <1>1, <1>2, DispatchTypeCorrect, PTL DEF Spec, DrivesVehicle, V!Spec

\* The other way round: whatever the abstract vehicle does by itself, with the
\* node and the server left alone, is a step of this module.  A firmware that
\* implements the vehicle shows the dispatch node nothing that is not modelled.
THEOREM VehicleCovered ==
    ASSUME V!Receive \/ V!Complete \/ V!EmergencyStop \/ V!Park,
           UNCHANGED <<nodeVars, task_sequence_request>>, Silent
    PROVE  Next
<1>1. CASE V!Receive
  <2>1. task_sequence_request # NoDone
    BY <1>1, RouteAssumption DEF V!Receive, NoDone
  <2> QED
    BY <1>1, <2>1 DEF V!Receive, VehicleReceives, Next
<1>2. CASE V!Complete
  <2>1. taskseq # NoDone
    BY <1>2, RouteAssumption DEF V!Complete, NoDone
  <2> QED
    BY <1>2, <2>1 DEF V!Complete, StopTask, Next
<1>3. CASE V!EmergencyStop
  BY <1>3 DEF V!EmergencyStop, VehicleEmergencyStop, Next
<1>4. CASE V!Park
  BY <1>4 DEF V!Park, VehicleParked, Next
<1> QED
  BY <1>1, <1>2, <1>3, <1>4
===============================================================================
