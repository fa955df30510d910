---------------------------- MODULE DispatchOrders ----------------------------
(***************************************************************************)
(* The order and task bookkeeping of the dispatch node                     *)
(* (dispatch_pkg/src/agv002): fetching orders from the server, working     *)
(* through the tasks of the order at the front of the queue, reporting     *)
(* progress, and the operator's takeover and its cancellation.             *)
(*                                                                         *)
(* The node runs ros::spin() in one thread, so every callback is atomic;   *)
(* which callback runs next is not determined.  An HTTP request can fail   *)
(* inside any callback; no report is retried.  The server is external.     *)
(* The vehicle is reduced to the task it was given last (taskseq) and to   *)
(* the done byte of its feedback frames (newAGVtaskover).                  *)
(***************************************************************************)
EXTENDS Integers, Sequences

CONSTANTS
    OrderCodes,   \* the orders the server can issue
    Positions,    \* position codes
    Home,         \* "chargingPark001", the position assumed at start-up
    Route,        \* ENDPOINT_CODE_MAP: <<start, end>> -> dispatch code
    OrderTasks,   \* the task list the server sends for each order
    NoOrder,      \* the empty orderCode of a default-constructed AgvOrder
    NoTask,       \* a default-constructed Task (empty endPositionCode)
    FlagInputs,   \* <<estop, pause>> pairs published on dispatch_and_pause_flags
    MaxReply      \* bound: new orders in one reply of the server

Task == [start : Positions, end : Positions]
NoCode == -1       \* g_current_dispatch_code: "nothing dispatched"
NoDone == 0        \* done byte of a vehicle that has finished nothing
Codes == {Route[r] : r \in DOMAIN Route}

ASSUME OrdersAssumption ==
    /\ NoOrder \notin OrderCodes
    /\ NoTask \notin Task
    /\ Home \in Positions
    /\ OrderTasks \in [OrderCodes -> Seq(Task)]
    /\ FlagInputs \subseteq BOOLEAN \X BOOLEAN
    /\ MaxReply \in Nat

\* Every code of ENDPOINT_CODE_MAP fits the one-byte task field of the link.
ASSUME RouteAssumption ==
    /\ DOMAIN Route \subseteq Positions \X Positions
    /\ Codes \subseteq 1..255

VARIABLES
    \* the dispatch node (globals of dispatch_node.cpp)
    g_agv_state, g_agvOrders, g_orderCodes,
    currentOrder, currentTask, last_task, if_order_ok,
    g_current_dispatch_code, agvStatus, last_agv_status, agvpostion,
    g_is_cancel_delay_active, cancel_pending, post_cancel_timer,
    \* the vehicle's side of the link
    task_sequence_request, taskseq, newAGVtaskover,
    \* the server
    openOrders,
    \* observation only: what the last handler reported, and the tasks of
    \* currentOrder completed since it was dispatched
    reports, executed

orderVars   == <<g_agvOrders, g_orderCodes>>
currentVars == <<currentOrder, currentTask, last_task, if_order_ok, executed>>
statusVars  == <<agvStatus, last_agv_status>>
delayVars   == <<g_is_cancel_delay_active, cancel_pending, post_cancel_timer>>
vehicleVars == <<taskseq, newAGVtaskover>>

vars == <<g_agv_state, orderVars, currentVars, g_current_dispatch_code,
          statusVars, agvpostion, delayVars, task_sequence_request,
          vehicleVars, openOrders, reports>>

-----------------------------------------------------------------------------
(* Orders, and the reports sent to the server *)

AgvOrder == [orderCode : OrderCodes, taskList : Seq(Task)]
EmptyOrder == [orderCode |-> NoOrder, taskList |-> <<>>]

QueuedCodes == {g_agvOrders[i].orderCode : i \in DOMAIN g_agvOrders}

Report == [orderCode : OrderCodes \cup {NoOrder},
           workingStatus : {"30", "50", "70", "80"},
           task : Task \cup {NoTask}, taskStatus : {"20", "70"}]

\* postReportAgvTaskDetail: nothing is sent while there is no current task.
\* The task named is the current one, or the one just finished if the caller
\* passes order_d_ok.
postReportAgvTaskDetail(order, current, named, working, status) ==
    IF current = NoTask THEN {}
    ELSE {[orderCode |-> order, workingStatus |-> working,
           task |-> named, taskStatus |-> status]}

\* The orders closed at the server by reports of working status 70.
ClosedBy(rs) == {r.orderCode : r \in {s \in rs : s.workingStatus = "70"}}

\* Each report of a handler reaches the server or is lost.
Send(rs) ==
    /\ reports' = rs
    /\ \E received \in SUBSET rs : openOrders' = openOrders \ ClosedBy(received)

Silent == /\ reports' = {}
          /\ UNCHANGED openOrders

NodeInit ==
    /\ g_agv_state = "IDLE"
    /\ g_agvOrders = <<>>
    /\ g_orderCodes = {}
    /\ currentOrder = EmptyOrder
    /\ currentTask = NoTask
    /\ last_task = NoTask
    /\ if_order_ok = FALSE
    /\ g_current_dispatch_code = NoCode
    /\ agvStatus = "10"
    /\ last_agv_status = "suibian"
    /\ agvpostion = Home
    /\ g_is_cancel_delay_active = FALSE
    /\ cancel_pending = FALSE
    /\ post_cancel_timer = FALSE

Init ==
    /\ NodeInit
    /\ task_sequence_request = NoDone
    /\ taskseq = NoDone
    /\ newAGVtaskover = NoDone
    /\ openOrders = OrderCodes
    /\ reports = {}
    /\ executed = <<>>

-----------------------------------------------------------------------------
(* The callbacks of the node *)

\* The new orders of a reply, in the server's sequence: open orders whose code
\* is not known yet.  Orders already known are skipped by the code and so are
\* left out of the reply.
FreshReplies ==
    UNION {{f \in [1..n -> openOrders \ g_orderCodes] :
              \A i, j \in 1..n : f[i] = f[j] => i = j} : n \in 0..MaxReply}

\* postCheckAgvSchedulingOrder: fresh orders are indexed and queued one by
\* one.  The reply may end in an order whose task list does not parse: its
\* code has been inserted by then, and the exception skips the push_back and
\* the rest of the reply.  A failed request is the empty reply, and so is the
\* reply to a request repeated with a renewed token, which does not parse.
Orders(fresh) == [i \in DOMAIN fresh |-> [orderCode |-> fresh[i],
                                         taskList |-> OrderTasks[fresh[i]]]]

\* Mutants: the code is not inserted; new orders are put first; the queue is
\* replaced by the reply.
PollWithoutIndex(fresh, broken) ==
    /\ g_orderCodes' = g_orderCodes \cup broken
    /\ g_agvOrders' = g_agvOrders \o Orders(fresh)
PollPushesFront(fresh, broken) ==
    /\ g_orderCodes' = g_orderCodes \cup {fresh[i] : i \in DOMAIN fresh} \cup broken
    /\ g_agvOrders' = Orders(fresh) \o g_agvOrders
PollReplacesQueue(fresh, broken) ==
    /\ g_orderCodes' = g_orderCodes \cup {fresh[i] : i \in DOMAIN fresh} \cup broken
    /\ g_agvOrders' = IF fresh = <<>> THEN g_agvOrders ELSE Orders(fresh)

postCheckAgvSchedulingOrder(fresh, broken) ==
    /\ g_orderCodes' = g_orderCodes \cup {fresh[i] : i \in DOMAIN fresh} \cup broken
    /\ g_agvOrders' = g_agvOrders \o Orders(fresh)

BrokenOrders(fresh) ==
    {{}} \cup {{o} : o \in (openOrders \ g_orderCodes)
                             \ {fresh[i] : i \in DOMAIN fresh}}

\* Mutant: the initial value of dispatchCode is stored for an unknown route.
PublishStoresZero(t) ==
    IF <<t.start, t.end>> \in DOMAIN Route
    THEN /\ g_current_dispatch_code' = Route[<<t.start, t.end>>]
         /\ task_sequence_request' = Route[<<t.start, t.end>>]
    ELSE /\ g_current_dispatch_code' = NoDone
         /\ UNCHANGED task_sequence_request

\* Mutant: an unknown route is published as the code 0.
PublishUnmapped(t) ==
    LET code == IF <<t.start, t.end>> \in DOMAIN Route THEN Route[<<t.start, t.end>>]
                                                        ELSE NoDone
    IN  g_current_dispatch_code' = code /\ task_sequence_request' = code

\* publishOneTask: the route code of the current task; an unknown route
\* publishes nothing and forgets the code.
publishOneTask(t) ==
    IF <<t.start, t.end>> \in DOMAIN Route
    THEN /\ g_current_dispatch_code' = Route[<<t.start, t.end>>]
         /\ task_sequence_request' = Route[<<t.start, t.end>>]
    ELSE /\ g_current_dispatch_code' = NoCode
         /\ UNCHANGED task_sequence_request

\* The 5 s timer: poll for orders unless the cancel delay runs, then publish
\* the current task again while executing.
timerCallback(fresh, broken) ==
    /\ IF g_is_cancel_delay_active
       THEN /\ fresh = <<>> /\ broken = {}
            /\ UNCHANGED orderVars
       ELSE postCheckAgvSchedulingOrder(fresh, broken)
    /\ IF g_agv_state = "EXECUTING" /\ currentTask # NoTask
       THEN publishOneTask(currentTask)
       ELSE UNCHANGED <<g_current_dispatch_code, task_sequence_request>>
    /\ Silent
    /\ UNCHANGED <<g_agv_state, currentVars, statusVars, agvpostion, delayVars,
                   vehicleVars>>

\* Mutant: the order is taken out of the index only.
LeaveIndexOnly ==
    /\ g_orderCodes' = g_orderCodes \ {Head(g_agvOrders).orderCode}
    /\ UNCHANGED g_agvOrders

\* The order at the front leaves the queue and the index.
LeaveQueue ==
    /\ g_orderCodes' = g_orderCodes \ {Head(g_agvOrders).orderCode}
    /\ g_agvOrders' = Tail(g_agvOrders)

\* The 5 s dispatch timer, idle with an order that has no task: drop it.
\* currentOrder keeps the copy just made.
DropEmptyOrder ==
    /\ g_agv_state = "IDLE"
    /\ g_agvOrders # <<>>
    /\ Head(g_agvOrders).taskList = <<>>
    /\ currentOrder' = Head(g_agvOrders)
    /\ LeaveQueue
    /\ executed' = <<>>
    /\ Silent
    /\ UNCHANGED <<g_agv_state, currentTask, last_task, if_order_ok,
                   g_current_dispatch_code, statusVars, agvpostion, delayVars,
                   task_sequence_request, vehicleVars>>

\* The same timer with a task to do: copy the front order and start its first
\* task.  The order stays at the front of the queue until it is finished.
dispatchNextOrder ==
    /\ g_agv_state = "IDLE"
    /\ g_agvOrders # <<>>
    /\ Head(g_agvOrders).taskList # <<>>
    /\ currentOrder' = Head(g_agvOrders)
    /\ currentTask' = Head(Head(g_agvOrders).taskList)
    /\ g_agv_state' = "EXECUTING"
    /\ if_order_ok' = FALSE
    /\ agvStatus' = "30"
    /\ executed' = <<>>
    /\ Send(postReportAgvTaskDetail(currentOrder'.orderCode, currentTask',
                                    currentTask', "30", "20"))
    /\ UNCHANGED <<orderVars, last_task, g_current_dispatch_code,
                   last_agv_status, agvpostion, delayVars,
                   task_sequence_request, vehicleVars>>

\* taskCompleteCallback acts on feedback whose done byte is the code
\* dispatched last; any other feedback changes nothing.
TaskConfirmed ==
    /\ g_agv_state = "EXECUTING"
    /\ g_current_dispatch_code # NoCode
    /\ newAGVtaskover = g_current_dispatch_code
    /\ currentOrder.taskList # <<>>

\* What confirmation does before it looks for a next task.
FinishCurrentTask ==
    /\ TaskConfirmed
    /\ g_current_dispatch_code' = NoCode
    /\ last_task' = Head(currentOrder.taskList)
    /\ agvpostion' = last_task'.end
    /\ executed' = Append(executed, last_task')
    /\ UNCHANGED <<last_agv_status, delayVars, task_sequence_request, vehicleVars>>

\* Mutants: the first report already closes the order; it names the task
\* finished before.
CompletionReportCloses ==
    postReportAgvTaskDetail(currentOrder.orderCode, currentTask, currentTask,
                            "70", "70")
CompletionReportStale ==
    postReportAgvTaskDetail(currentOrder.orderCode, currentTask, last_task,
                            "30", "70")

\* if_order_ok is read before the branch assigns it.
CompletionReport ==
    postReportAgvTaskDetail(currentOrder.orderCode, currentTask,
                            IF if_order_ok THEN last_task' ELSE currentTask,
                            "30", "70")

\* Mutant: the last task is erased instead of the first.
EraseLastTask == SubSeq(currentOrder.taskList, 1, Len(currentOrder.taskList) - 1)

\* taskList.erase(taskList.begin())
RemainingTasks == Tail(currentOrder.taskList)

\* taskCompleteCallback, a task that is followed by another.
taskCompleteNext ==
    /\ FinishCurrentTask
    /\ Len(currentOrder.taskList) > 1
    /\ currentOrder' = [currentOrder EXCEPT !.taskList = RemainingTasks]
    /\ currentTask' = Head(currentOrder'.taskList)
    /\ if_order_ok' = FALSE
    /\ Send(CompletionReport
              \cup postReportAgvTaskDetail(currentOrder.orderCode, currentTask',
                                           currentTask', "30", "20"))
    /\ UNCHANGED <<g_agv_state, orderVars, agvStatus>>

\* taskCompleteCallback, the last task of the order: the final report, then
\* the order leaves the queue and its code the index.
taskCompleteLast ==
    /\ FinishCurrentTask
    /\ Len(currentOrder.taskList) = 1
    /\ if_order_ok' = TRUE
    /\ Send(CompletionReport
              \cup postReportAgvTaskDetail(currentOrder.orderCode, currentTask,
                                           last_task', "70", "70"))
    /\ IF g_agvOrders # <<>> /\ Head(g_agvOrders).orderCode = currentOrder.orderCode
       THEN LeaveQueue
       ELSE UNCHANGED orderVars
    /\ currentOrder' = EmptyOrder
    /\ currentTask' = NoTask
    /\ g_agv_state' = "IDLE"
    /\ agvStatus' = "10"

\* manualTakeoverCallback, the reports: every task of every queued order, but
\* postReportAgvTaskDetail names currentOrder, and currentTask unless the task
\* is the last of its order.
TaskReport(tasks, k) ==
    IF k = Len(tasks)
    THEN postReportAgvTaskDetail(currentOrder.orderCode, currentTask, tasks[k],
                                 "70", "70")
    ELSE postReportAgvTaskDetail(currentOrder.orderCode, currentTask, currentTask,
                                 "30", "70")

TakeoverReports ==
    UNION {UNION {TaskReport(g_agvOrders[i].taskList, k) :
                    k \in DOMAIN g_agvOrders[i].taskList} : i \in DOMAIN g_agvOrders}

\* manualTakeoverCallback: report, then drop every order.  The dispatched code
\* and if_order_ok are left as they are.
manualTakeoverCallback ==
    /\ Send(TakeoverReports)
    /\ g_agvOrders' = <<>>
    /\ g_orderCodes' = {}
    /\ g_agv_state' = "IDLE"
    /\ currentOrder' = EmptyOrder
    /\ currentTask' = NoTask
    /\ last_task' = NoTask
    /\ agvStatus' = "80"
    /\ executed' = <<>>
    /\ UNCHANGED <<if_order_ok, g_current_dispatch_code, last_agv_status,
                   agvpostion, delayVars, task_sequence_request, vehicleVars>>

\* manualTakeoverCancelCallback: back to idle, whatever was going on; the
\* current task is said to start here; the 10 s delay begins anew.
manualTakeoverCancelCallback ==
    /\ g_agv_state' = "IDLE"
    /\ agvStatus' = IF g_agvOrders # <<>> \/ currentOrder.orderCode # NoOrder
                    THEN "30" ELSE "10"
    /\ currentTask' = IF currentTask = NoTask THEN NoTask
                      ELSE [currentTask EXCEPT !.start = agvpostion]
    /\ g_is_cancel_delay_active' = TRUE
    /\ cancel_pending' = TRUE
    /\ post_cancel_timer' = TRUE
    /\ Silent
    /\ UNCHANGED <<orderVars, currentOrder, last_task, if_order_ok, executed,
                   g_current_dispatch_code, last_agv_status, agvpostion,
                   task_sequence_request, vehicleVars>>

\* Mutant: the flag that suspends polling is left set.
EndDelayKeepsFlag ==
    /\ post_cancel_timer' = FALSE
    /\ cancel_pending' = FALSE
    /\ UNCHANGED g_is_cancel_delay_active

EndDelay ==
    /\ post_cancel_timer' = FALSE
    /\ cancel_pending' = FALSE
    /\ g_is_cancel_delay_active' = FALSE

\* postCancelTimerCallback: the one-shot timer ends the delay and polls.
postCancelTimerCallback(fresh, broken) ==
    /\ post_cancel_timer
    /\ EndDelay
    /\ IF cancel_pending
       THEN postCheckAgvSchedulingOrder(fresh, broken)
       ELSE UNCHANGED orderVars
    /\ Silent
    /\ UNCHANGED <<g_agv_state, currentVars, g_current_dispatch_code, statusVars,
                   agvpostion, task_sequence_request, vehicleVars>>

\* Of the current order; if_order_ok is whatever the last handler left in it.
FlagsReport(working) ==
    postReportAgvTaskDetail(currentOrder.orderCode, currentTask,
                            IF if_order_ok THEN last_task ELSE currentTask,
                            working, "20")

\* statusFlagsCallback: emergency stop, pause, or neither.  No node of the
\* repository publishes the topic, so what arrives on it is a parameter.
statusFlagsCallback(estop, pause) ==
    /\ \/ /\ estop
          /\ agvStatus' = "10" /\ last_agv_status' = "10"
          /\ Send(FlagsReport("80"))
       \/ /\ ~estop /\ pause
          /\ agvStatus' = "40" /\ last_agv_status' = "40"
          /\ Send(FlagsReport("50"))
       \/ /\ ~estop /\ ~pause
          /\ ~(agvStatus = "10" /\ g_agvOrders = <<>>)
          /\ last_agv_status # "30"
          /\ agvStatus' = "30" /\ last_agv_status' = "30"
          /\ Send(FlagsReport("30"))
    /\ UNCHANGED <<g_agv_state, orderVars, currentVars, g_current_dispatch_code,
                   agvpostion, delayVars, task_sequence_request, vehicleVars>>

\* The node is killed and started again by the operator: main() starts from
\* the initial globals while the server and the vehicle carry on, the vehicle
\* with the code it was sent last.
Restart ==
    /\ g_agv_state' = "IDLE"
    /\ g_agvOrders' = <<>> /\ g_orderCodes' = {}
    /\ currentOrder' = EmptyOrder /\ currentTask' = NoTask /\ last_task' = NoTask
    /\ if_order_ok' = FALSE
    /\ executed' = <<>>
    /\ g_current_dispatch_code' = NoCode
    /\ agvStatus' = "10" /\ last_agv_status' = "suibian"
    /\ agvpostion' = Home
    /\ g_is_cancel_delay_active' = FALSE
    /\ cancel_pending' = FALSE /\ post_cancel_timer' = FALSE
    /\ Silent
    /\ UNCHANGED <<task_sequence_request, vehicleVars>>

-----------------------------------------------------------------------------
(* The vehicle, as far as the node can tell *)

nodeVars == <<g_agv_state, orderVars, currentVars, g_current_dispatch_code,
              statusVars, agvpostion, delayVars>>

\* The bridge hands the code published last to the firmware in a 'd' frame.
\* The frame stays in the receive buffer and is read again in every pass of
\* the main loop, after a mode switch and after a restart of the node too.
VehicleReceives ==
    /\ task_sequence_request # NoDone
    /\ taskseq' = task_sequence_request
    /\ Silent
    /\ UNCHANGED <<nodeVars, newAGVtaskover, task_sequence_request>>

\* StopTask: the end of the path; the done byte becomes the task's code and
\* stays until something else sets it.
StopTask ==
    /\ taskseq # NoDone
    /\ newAGVtaskover' = taskseq
    /\ Silent
    /\ UNCHANGED <<nodeVars, taskseq, task_sequence_request>>

\* The parking position of the mode switch forgets the task and the done byte.
VehicleParked ==
    /\ taskseq' = NoDone
    /\ newAGVtaskover' = NoDone
    /\ Silent
    /\ UNCHANGED <<nodeVars, task_sequence_request>>

\* The emergency stop clears the done byte only.
VehicleEmergencyStop ==
    /\ newAGVtaskover' = NoDone
    /\ Silent
    /\ UNCHANGED <<nodeVars, taskseq, task_sequence_request>>

-----------------------------------------------------------------------------
Timers ==
    \E fresh \in FreshReplies : \E broken \in BrokenOrders(fresh) :
        \/ timerCallback(fresh, broken)
        \/ postCancelTimerCallback(fresh, broken)

Progress ==
    \/ dispatchNextOrder
    \/ taskCompleteNext
    \/ taskCompleteLast

Flags == \E flags \in FlagInputs :
            statusFlagsCallback(flags[1], flags[2])

Next ==
    \/ Timers
    \/ DropEmptyOrder
    \/ Progress
    \/ Flags
    \/ manualTakeoverCallback
    \/ manualTakeoverCancelCallback
    \/ Restart
    \/ VehicleReceives
    \/ StopTask
    \/ VehicleParked
    \/ VehicleEmergencyStop

Spec == Init /\ [][Next]_vars

-----------------------------------------------------------------------------
(* Fairness.  The two periodic timers and the one-shot timer fire, the link   *)
(* and the vehicle get on with their work, and the server goes on offering   *)
(* an order it considers open.  A completion is acted on only while the done *)
(* byte matches, and its final report gets through only sometimes: strong    *)
(* fairness says that a report that is attempted for ever gets through.      *)
FairSpec ==
    /\ Spec
    /\ \A o \in OrderCodes :
          WF_vars(\E fresh \in FreshReplies :
                     /\ o \in {fresh[i] : i \in DOMAIN fresh}
                     /\ timerCallback(fresh, {}))
    /\ WF_vars(\E fresh \in FreshReplies : timerCallback(fresh, {}))
    /\ WF_vars(\E fresh \in FreshReplies : postCancelTimerCallback(fresh, {}))
    /\ WF_vars(DropEmptyOrder)
    /\ WF_vars(Progress)
    /\ SF_vars(taskCompleteLast /\ currentOrder.orderCode \notin openOrders')
    /\ WF_vars(VehicleReceives)
    /\ WF_vars(StopTask)

-----------------------------------------------------------------------------
(* Properties *)

\* The types of the variables.
TypeOK ==
    /\ g_agv_state \in {"IDLE", "EXECUTING"}
    /\ g_agvOrders \in Seq(AgvOrder)
    /\ g_orderCodes \subseteq OrderCodes
    /\ currentOrder \in [orderCode : OrderCodes \cup {NoOrder}, taskList : Seq(Task)]
    /\ currentTask \in Task \cup {NoTask}
    /\ last_task \in Task \cup {NoTask}
    /\ if_order_ok \in BOOLEAN
    /\ g_current_dispatch_code \in Codes \cup {NoCode}
    /\ agvStatus \in {"10", "30", "40", "80"}
    /\ last_agv_status \in {"suibian", "10", "30", "40"}
    /\ agvpostion \in Positions
    /\ g_is_cancel_delay_active \in BOOLEAN
    /\ cancel_pending \in BOOLEAN
    /\ post_cancel_timer \in BOOLEAN
    /\ task_sequence_request \in Codes \cup {NoDone}
    /\ taskseq \in Codes \cup {NoDone}
    /\ newAGVtaskover \in Codes \cup {NoDone}
    /\ openOrders \subseteq OrderCodes
    /\ reports \subseteq Report
    /\ executed \in Seq(Task)

\* No order is queued twice, every queued order is in the index the poll
\* consults, and its task list is the one the server sent: the index is what
\* keeps a repeated reply from queueing an order again.
QueueIndexed ==
    /\ QueuedCodes \subseteq g_orderCodes
    /\ \A i, j \in DOMAIN g_agvOrders :
          g_agvOrders[i].orderCode = g_agvOrders[j].orderCode => i = j
    /\ \A i \in DOMAIN g_agvOrders :
          g_agvOrders[i].taskList = OrderTasks[g_agvOrders[i].orderCode]

\* While the node executes, its copy of the order belongs to the front of the
\* queue, has a task left, and the current task is its first: polls, cancels
\* and takeovers between two feedback frames never leave it working on an
\* order that is not queued ("State is inconsistent" is not reached).
ExecutingFrontOrder ==
    g_agv_state = "EXECUTING" =>
        /\ g_agvOrders # <<>>
        /\ currentOrder.orderCode = Head(g_agvOrders).orderCode
        /\ currentOrder.taskList # <<>>
        /\ currentTask = Head(currentOrder.taskList)
        /\ ~if_order_ok

\* No step skips, repeats or swaps a task: the tasks completed since the order
\* was dispatched and the tasks left make up the list the server sent.
ProgressAddsUp ==
    g_agv_state = "EXECUTING" =>
        executed \o currentOrder.taskList = OrderTasks[currentOrder.orderCode]

\* The vehicle never works on, or waits to work on, an order the server has
\* been told is finished.
OnlyOpenOrdersQueued == QueuedCodes \subseteq openOrders

\* While polling is suspended the one-shot timer that resumes it is armed.
DelayHasEnd == g_is_cancel_delay_active => post_cancel_timer /\ cancel_pending

\* The server closes an order only when all its tasks were confirmed, in
\* sequence, since its dispatch, or an operator took over.
ClosedOnlyWhenDone ==
    [][\A o \in openOrders \ openOrders' : manualTakeoverCallback \/ executed' = OrderTasks[o]]_vars

\* An order leaves the queue only from the front and with all its tasks done,
\* unless everything is dropped by a takeover or a restart.
LeavesOnlyWhenDone ==
    [][\A o \in QueuedCodes \ QueuedCodes' :
          \/ manualTakeoverCallback
          \/ Restart
          \/ o = Head(g_agvOrders).orderCode /\ executed' = OrderTasks[o]]_vars

\* What the server is told: "completed" (70) names the task just confirmed,
\* "queued" (20) the task the vehicle is to do now, both for the right order.
ReportsTruthful ==
    [][manualTakeoverCallback \/ \A r \in reports' :
          /\ r.taskStatus = "70" => /\ r.orderCode = currentOrder.orderCode
                                   /\ r.task = Head(currentOrder.taskList)
          /\ r.taskStatus = "20" => /\ r.orderCode = currentOrder'.orderCode
                                   /\ r.task = currentTask']_vars

\* The vehicle as this module has it, with the codes the node publishes in
\* whatever sequence of orders, takeovers and restarts, is the abstract vehicle
\* that the firmware implements (VehicleTask): the vehicle works only on codes
\* that were published, and completes only what it was given.
V == INSTANCE Vehicle WITH Published <- Codes, Codes <- Codes, NoCode <- NoDone
DrivesVehicle == V!Spec

\* What the server sees of the node is the service it was promised.  An order
\* is begun as long as it has a current task: also after a cancellation.
Service ==
    INSTANCE OrderService WITH
        open    <- openOrders,
        begun   <- IF currentTask = NoTask THEN NoOrder ELSE currentOrder.orderCode,
        working <- g_agv_state = "EXECUTING",
        done    <- IF currentTask = NoTask THEN <<>> ELSE executed
ServesOrders == Service!Spec

\* Once the operator and the switches of the vehicle leave the system alone,
\* every order the server holds open is finished, except one whose code was
\* indexed without its tasks.
Undisturbed == <>[][~(\/ manualTakeoverCallback \/ manualTakeoverCancelCallback \/ Restart
                     \/ VehicleParked \/ VehicleEmergencyStop)]_vars
OrdersServed ==
    Undisturbed =>
        \A o \in OrderCodes :
            o \in openOrders ~> o \notin openOrders \/ o \in g_orderCodes \ QueuedCodes

\* status_handlers.cpp says that a takeover reports the tasks of the current
\* order and of all queued orders as completed, one by one: with the network
\* up, no queued order is open at the server after it.
TakeoverClosesEveryOrder ==
    [][manualTakeoverCallback /\ openOrders' = openOrders \ ClosedBy(reports')
       => QueuedCodes \cap openOrders' = {}]_vars
===============================================================================
