# Models of the AGV's dispatch node, bridge and firmware

The repository holds the software of a driverless transport vehicle: four ROS
packages on an industrial PC (`ros/car_ws0917/car_ws0917/src`) and the firmware
of the STM32F407 that drives it (`stm32f4/User`). This directory models how
orders become tasks, tasks become paths, and paths become driving; how the
vehicle is stopped and released on its way; and how it is reported what was
done. The modules are checked with TLC on small instances, and their main
invariants are proved with TLAPS for every value of the constants.

Paths below are relative to the repository; `agv002/` stands for
`ros/car_ws0917/car_ws0917/src/dispatch_pkg/src/agv002/`.

## 1. The system

```
 scheduling server  <--HTTP-->  dispatch node  --task_sequence_request-->  agv_bridge  <--UART 12 bytes-->  firmware
                                   ^   |                                     ^   |  ^                          ^
                    agv_pose, flags|   +--agv_wait_flag--------------------->+   |  +--obstacle sectors-- can_node (CAN)
                              NDT matching ----agv_wait_flag, pose-----------+   +--feedback, takeover--> dispatch node
```

| Component | State it keeps | Operations | Hard about it |
|---|---|---|---|
| dispatch node, orders (`agv002/task_handlers.cpp`, `status_handlers.cpp`, `dispatch_node.cpp`) | the queue of orders, the index of known codes, copies of the current order and task, the code dispatched last, the cancel delay | 5 s poll, 5 s dispatch, publish, feedback, takeover, its cancellation, status flags | interleaving of timers and messages, one lost HTTP request in a handler, repeated replies, restarts, stale codes |
| dispatch node, waits (same files) | two waiting flags with timers, the permission lock of a point, inside/outside of the lane | pose, two polls | one topic with three writers, retries, an answer that no longer fits the place |
| HTTP client (`http_utils.cpp`) | the token | request, login on 401/403 with one retry | failure in the middle of a handler, replies that add up |
| agv_bridge (`agv_bridge_node.cpp`) | the code sent last, the mode seen last, debounce times, receive buffer | frames `d`, `t`, `w`, `l` out; feedback, mode events, obstacle bytes in | a thread beside the ROS callbacks, debounced edges that do not come back |
| can_node (`can_pkg`) | the last obstacle bytes | scan callback, 100 Hz sending | stale data sent for ever |
| NDT matching (`ndt_mapping`) | pose, filters, point cloud watchdog | clouds, watchdog, initial pose | losing and regaining the cloud |
| firmware main loop (`main.c`, `run/run.c`) | self test, path on its way from the table to the wheels, row counter, pause, done byte | switches, self test, taking a path, driving rows, stop | the receive buffer is replaced by an interrupt and never emptied, many buffers reset in different places |
| firmware frames (`EC20/4g_comnet.c`, `usart/bsp_debug_usart.c`) | one receive buffer, path tables 101..141 | frames `d`, `w` | a frame lost or read twice, read while it is replaced |
| firmware obstacle side (`run/lidar.c`, `rs16_lidar.c`, `TIMER/timer.c`, `stm32f4xx_it.c`) | loss counter, obstacle flags | CAN and timer interrupts | an 8-bit counter, torn reads |
| firmware motion control (`run/run.c`) | pose and its checks, self test, speed asked for, brakes | lines, turns, reversing, the ways to stop | flags of one pass read in the next, many ways to withdraw a path; the rest is numerics |

What makes each of them correct:

* orders: none is queued twice or dropped half done; tasks are done in
  sequence; the server is told the truth and every open order is finished;
* waits: a permission is asked on every visit, a stop always has something
  behind it that will ask again, and a stopped vehicle is released;
* firmware: a path is taken whole and driven in sequence, the stop comes after
  the last row, and nothing is reported as done that was not driven;
* bridge: what it publishes was sent, in order and once; it finds the frames
  again after lost bytes; the mode events told are right;
* obstacle side: an obstacle or a lost lidar stops the vehicle, and only a look
  at the right side lets it go on;
* motion control: a vehicle that lost its pose stops, and starts again only
  after a self test; jumping poses are bridged a few times at most; a speed is
  in force only for a path that is taken.

`PROJECT.json` lists the components with what is left out of each, and the
hazards of the code, each at its line with the properties that guard it.

## 2. Modules

| Module | Models | Runs |
|---|---|---|
| `OrderService` | what the dispatch node promises the server: one order at a time, its tasks in sequence | as a property of `DispatchOrders_safety` |
| `DispatchOrders` | orders and tasks of the dispatch node, with the server and the vehicle as far as the node can tell | `DispatchOrders_*` |
| `WaitGate` | buffer points, lane, their polls, login renewal, NDT's watchdog, restarts | `WaitGate_*` |
| `Vehicle` | the abstract vehicle the rest of the system relies on | as a property of `VehicleTask_safety` and of `DispatchOrders_safety` |
| `VehicleTask` | bridge's task frames, receive buffer and main loop of the firmware | `VehicleTask_*` |
| `ObstacleWatch` | from the scanners to the wheels: bridge, `can_node`, CAN and timer interrupts, `LidarRead`, the tests of the main loop | `ObstacleWatch_*` |
| `DriveControl` | the main loop as the one that decides whether the vehicle drives: modes, pause, self test, `GetPosition`, rows, stops | `DriveControl_*` |
| `Feedback` | what the serial link to the bridge promises | as a property of `BridgeLink_safety` |
| `BridgeLink` | that link byte by byte: the firmware's frame, `rxThread`, the mode events | `BridgeLink_safety` |
| `MC...` | values of the constants for TLC | |
| `...Proofs` | theorems and proofs | |

**State.** Variables carry the names of the globals they stand for
(`g_agvOrders`, `currentTask`, `newAGVtaskover`, ...). Variables that are not in
the code are marked "observation only": the reports of the last handler
(`reports`) and the tasks completed since an order was dispatched (`executed`),
whether the stop in force was left behind by a restart (`orphaned`), the rows
driven to their end (`driven`), where the vehicle is (`place`, `pose`), the true
length of a silence on the bus (`silence`), whether the pose was out of
tolerance since the last self test (`doubted`), how many jumps were bridged in a
row (`bridged`), and of the bridge the frame
under way, the event told last and whether an edge was passed over (`onWay`,
`told`, `passedOver`). No action's guard reads them. `cleared` and `left` of
`DriveControl` stand for what the code has in its buffers: that the rows of
`now_task` are zero, and how many of them `TaskCount` has still to pass over.

**Actions.** The dispatch node runs `ros::spin()` in one thread, so each of its
callbacks is one action, HTTP requests included: a request that fails is a
choice inside the action. NDT matching is one thread as well. The firmware runs
one loop; interrupts come in between. `VehicleTask` cuts one pass of the loop
at the places where the receive buffer is read, and a `pc` says which part
comes next. While the buffer is being read a frame may replace it: the code is
then that of the old frame and the switch flag that of the new one (`Arrival`
inside `comm_path_trans`). `ObstacleWatch` lets a CAN frame come in between any
two bytes that `newcanLidarTrans` reads (`LidarReadDisturbed`): the bytes taken
are then of two frames, or the checksum fails and none is taken. `DriveControl`
cuts a pass where another part of it begins; `BridgeLink` runs the receiving
thread for each byte, because how the bytes are cut into reads does not change
what it finds.

**Abstraction.** Orders are codes with lists of `(start, end)` pairs; reports
keep what the server acts on. A place is what the geometric tests tell of it.
A row of a path is its path and its number; how far the vehicle has got in a
row is left open (`DriveOn`, `DriveToEnd`). The three models of the main loop
look at one part of it each and leave the others open: `VehicleTask` at the path
and its rows (obstacles and pose errors are `Hold`), `ObstacleWatch` at the
lidars (a pass may be held or skipped for other reasons, a pose may be refused),
and `DriveControl` at the modes and the pose (an obstacle may hold any pass). A
speed is asked for or not; a pose is how far it lies from the one before; a
distance is told by the limits it is compared with.

**Composition.** `DispatchOrders` contains the vehicle as four actions on the
three variables of `Vehicle`. Its behaviours are behaviours of `Vehicle`
(`DrivesVehicle`), every step of `Vehicle` is one it allows (`VehicleCovered`),
and `VehicleTask`, the bridge's task frames and the firmware, implements
`Vehicle` (`AbstractVehicle`). So the dispatch node is checked against a vehicle
that does neither more nor less than the abstract one, and the firmware is one
such vehicle. Towards the server, `DispatchOrders` implements `OrderService`
(`ServesOrders`): the order that is begun is the one of the current task, which
a cancellation interrupts and the next dispatch begins again. In the same way
`BridgeLink` implements `Feedback` (`Implements`); the mapping says that a
message carries mode and task state in the other order.

## 3. Runs

`MaxReply` bounds the new orders in one reply of the server; `MaxRows` is the
size of the path buffers; `MaxLeft` bounds how many cleared rows of a path may be
left behind the one that is met first. All are constants, and the theorems hold for every
value of them. No other bound was needed: every variable has finitely many
values once the constants have.

| Run | Asks | Instance |
|---|---|---|
| `DispatchOrders_safety` | bookkeeping, reports and closing of orders, refinement of `OrderService`, under everything that can happen | three orders (two tasks, no task, a route without a code), two new orders in one reply, all flags, 393,000 states |
| `DispatchOrders_served` | every open order is finished once the operator leaves the system alone | two orders with mapped routes, one new order a reply, nobody publishes the flags |
| `WaitGate_safety` | a permission is good for one visit, a stop has a poll behind it, a stopped vehicle is released | two points with their rings, the lane, and elsewhere; restarts of both nodes; up to three attempts with a login in between |
| `VehicleTask_safety` | whole paths, in sequence, stop, done byte, refinement | a path of two rows that ends in a pause, one of one row that does not, a code without a path, 491,000 states |
| `ObstacleWatch_safety` | obstacles are lifted by a look, no start in silence, danger stops the vehicle while passes look at the lidar | something at hand or a clear road on each side, a scan old after one period, a bus silent after one tick, a counter that goes round after two, 501,000 states |
| `DriveControl_safety` | self test before a start, speed only for a path that is taken, jumps bridged, jumping and frozen poses stop the vehicle | two repeated poses stop, one jump is bridged, a counter that goes round after three, one cleared row behind the first, 275,000 states |
| `BridgeLink_safety` | refinement of `Feedback`, resynchronisation, mode events | three modes with a charge that looks like a header, a frame that the rest of another one reads into, one that a lost byte turns into another; one lost byte a frame, restarts, 55,000 states |

Two orders are enough to have one behind the other, the third adds the awkward
shapes; two tasks are the least that has a "next" and a "last". Two points
show a lock of one and a visit of the other. A path of two rows has a first
and a last row that differ, the shorter path makes stale rows behind it
visible, and the code without a path is the one the firmware ignores.
The limits of the firmware (100 ticks, 256 values, 30 poses, two jumps) are
constants, and their small values keep their order: a loss is noticed before
its counter goes round, and a count of jumps passes its limit before the byte
does; the theorems hold for the values of the code. Rows follow each other as
they do in the 43 tables of `4g_comnet.c`, which never have two turns in a row;
that is an assumption, because a turn reads a pose of its own and would clear
`OutTolerance` behind the back of the main loop. A checksum of one byte does not protect every
frame: after a lost byte nine bytes that are no frame may add up like one. `Weak`
names the frames this can happen to, whichever frame is sent before them, and
`Feedback` lets these and no others be misread. Two payloads of the instance are
of this kind: the rest of a frame, from a charge of 97 on, reads like a frame
that ends in the next one, of task 141; and a frame with a charge of 25 that
loses its mode reads like one with a zero of the padding in it. The other three
are protected, and have to be read as they are. Deadlock is checked in every run.

Five more runs show where the code does something
else than its own comments say. In each the counterexample is what the run is
for, and the finding in `PROJECT.json` quotes the line:

| Run | The code |
|---|---|
| `DispatchOrders_takeover` | reports the tasks of all queued orders under the current order's code and drops them |
| `WaitGate_whereabouts` | polls the lane with the event of the moment the wait began |
| `VehicleTask_done` | clears a path already taken when its frame is read again, and reports the code as done after the first row |
| `ObstacleWatch_recovery` | takes back the loss of a silent bus when an 8-bit counter has gone round |
| `DriveControl_selftest` | takes the self test back in the midst of a row and keeps the speed asked for while it fails |

The models show more of this kind; these have no run of their own:

* a cancellation writes the new start of the interrupted task into a copy the
  next dispatch overwrites (`status_handlers.cpp:115`);
* the code dispatched last survives a takeover, so the done byte of the
  interrupted task can confirm the next order's (`task_handlers.cpp:298`);
* the lane and the point cloud say "go" while a buffer point is refused
  (`task_handlers.cpp:234`), and a stop answered to a retry, or after a renewed
  login, is appended to the body before it and read as "go"
  (`task_handlers.cpp:183`, `http_utils.cpp:88`);
* an edge of the mode within the debouncing intervals, or through Parked
  between two frames, is never told (`agv_bridge_node.cpp:415`, `:410`);
* after a frame that clears the rows of a path taken, `GetTaskParameter` meets a
  "Task data error" (`run.c:1248`) for each of them: the status stays 9 for a
  pass a row, `ehbstop` brakes, but the speed asked for stays in force, and
  `auto_start=0`, which is to leave automatic driving (`run.c:1253`), is undone in
  the next pass (`main.c:238`);
* once the bridge is dead, `can_node` sends its last obstacle bytes for ever,
  with the flag of a sound lidar (`can_node.cpp:116`).

**Fairness.** Liveness is claimed where the code's own scheduling justifies it.
`DispatchOrders` (`FairSpec`): the 5 s timers and the one-shot timer fire; the
server repeats an open order until it is finished; the link delivers and the
vehicle ends a path it can drive; and a final report that is attempted again
and again gets through at some time (strong fairness: without it a network
that fails exactly at each final report keeps an order open for ever, which no
client can help). Takeovers, cancellations, restarts, parking and emergency
stops have no fairness, and the property speaks of behaviours in which they end.
An order whose code was indexed without its tasks is excluded: the code loses
it, which is listed as a hazard. `WaitGate` (`FairSpec`): the polling timers are
periodic, the cloud comes back, and the server at some time gives the
permission; `Released` speaks of behaviours in which the restarts end, and of
stops that no restart left behind. `ObstacleWatch` (`FairSpec`): the timers of
the bridge and of `can_node` fire, and the bus delivers. Of the main loop nothing
is assumed: while the self test is not passed, or the mode is another, its
passes skip `LidarRead` and the hold (`main.c:219-240`, `SkipPass`), and once a
task switched to in mid-row has taken the self test back this can last for ever,
with the speed in force; that is what `DriveControl_selftest` shows. So that
passes of the other kind keep coming is the premise of `DangerStops`
(`PassesRecur`); skipped passes in between do no harm, and without the premise TLC
finds the vehicle driving on. A pass that changes nothing leaves no step in a
behaviour, so a state in which a pass may change nothing counts as one: a
vehicle that drove on blindly would not escape the property.
`DriveControl` (`FairSpec`): the main loop goes round with the mode switch in one of
its three positions (a pass in none of them is possible, `NoModePass`, but does
not count), nothing else: poses may stop coming, and the operator may do
nothing. `BridgeLink` (`FairSpec`): the main loop goes on
sending and the bytes leave the port; that no more are lost is the premise of
`Resyncs`. `VehicleTask` states no liveness: an operator may hold the vehicle
for ever.

## 4. What is proved

All proofs are for arbitrary constants under the named assumptions:
`OrdersAssumption`, `RouteAssumption` (codes fit the byte of the link),
`PlacesAssumption` (no place is within reach of two points),
`VehicleTaskAssumption` (tables fit the buffers), `ObstacleWatchAssumption`
(distances do not wrap the checksum, the limit is below the width of the
counter), `DriveControlAssumption` (the same of the poses, no two turns in a
row) and `BridgeLinkAssumption` (payloads are seven bytes, of which the first three
are no header: they are the number of a task, what is over, and the state of
the task). TLC evaluates them in the runs.

*`DispatchOrdersProofs`.* `Bookkeeping` is the inductive invariant: types, the
index covers the queue, the executing order is the front of the queue, tasks
done and tasks left make up the order, and queued orders are open. None of
these is inductive alone: that the executing order is the front needs the index
(or a reply could queue it again and the wrong copy be erased), and that tasks
add up needs the front order. From it follow `QueueIndexedAlways`,
`ExecutingFrontOrderAlways`, `ProgressAddsUpAlways`,
`OnlyOpenOrdersQueuedAlways`, and the two action properties
`ClosedOnlyWhenDoneCorrect` and `LeavesOnlyWhenDoneCorrect`. `DelayHasEndAlways`
is inductive with the types. `ReportsTruthfulCorrect` looks into the handler
that completes a task: its two reports are built from the same globals before
and after it has overwritten them. `DrivesVehicleCorrect` maps every step to a
step of `Vehicle` or none, and `VehicleCovered` goes the other way.

*`OrderServiceProofs`.* `ServesOrdersCorrect`: `DispatchOrders` implements
`OrderService`, for all orders and routes and whatever requests are lost. The
bookkeeping is not enough for it, because it says nothing of an order that a
cancellation has interrupted: `BegunIsFront` says that as long as there is a
current task, its order is the front of the queue, also while nothing executes,
so that the next dispatch begins this order again and no other. `DropEmptyOrder`
is the step to watch: it takes the front away, and must not find it begun.

*`WaitGateProofs`.* Through restarts: types, the lock of a visit, and that a stop
has a poll behind it or was left behind by a restart. Each is inductive with the
types.

*`VehicleTaskProofs`.* The inductive invariant `Inv` adds to the properties
that the receive buffer holds the frame sent last or none with a code
(`FrameIsLast`), where in a pass each status can be met (`Stage`), and that the
path taken is there from end to end or has been cleared, with the row counter
and the rows driven in step as long as it is there (`OnItsWay`). Without the
last the row counter says nothing about the rows driven; without the first the
vehicle could work on a task that was never published. One lemma per action
shows that it is preserved. From it follow the types (and with them that the
row counter stays inside the buffers), `TakenWholeAlways`, `OnePathAlways`,
`StopAfterLastRowAlways`, `DoneAfterDrivingCorrect` and `ImplementsVehicle`:
the main loop and its link implement the abstract vehicle.

*`ObstacleWatchProofs`.* `StartsHeard` rests on what the counter means: as long
as the true silence is shorter than the counter's range, the two are equal
(`FlagCounts`). `LiftedByLook` needs that on a row `LidarTestSwitch` is the one
of the row (`WatchesRow`): only then does a clear distance speak of the side the
row drives to.

*`DriveControlProofs`.* `TestedToStart` is the hardest: a vehicle that is not
driving and in doubt stays out of tolerance, off automatic, or before its self
test, through every way a pose can be read in the meantime, also by a turn that
begins or ends. `DoubtTold` says, for each point of a pass, which of them it is;
the assumption that no two turns follow each other is used there and nowhere
else. `SpeedForPath` needs where in a pass each status can be met (`PartRow`: the end
of a row is handled in the pass it ends in), and that rows are passed over only
of a path that has been cleared (`FetchesCleared`). `JumpsBridgedAlways` is the safety behind `JumpsStop`: the byte
that counts the jumps, the flag of the loss and the stop are set in different
branches, over passes that compare no poses at all; `JumpsCounted` says that as
long as jumps are bridged the byte tells how many, but for the one that is
bridged when it goes round. So that one jump more than `JumpLimit` is the worst,
and TLC finds it.

*`BridgeLinkProofs`.* Types (with them, that the buffer of the bridge never holds
a whole frame between two bytes), and that the event told last is right.

*`FeedbackProofs`.* `LinkImplements`: the serial link implements `Feedback`, for
all payloads, whatever bytes are lost and whenever the bridge is started again.
The invariant `Framed` cuts the stream in two: what the thread has is the end of
what came in of the frame before and of the frame under way, and once that one
has been read, at least one of the bytes that came in of it is gone. The first
part says where nine bytes that pass the checksum can begin: at the header of
the frame under way or in the frame before, because the three bytes after a
header are none; if they are not the frame itself, it is one of `Weak`. The
second says that no frame is read twice: those nine bytes hold everything that
has come in of the frame, but of one that was read a byte is gone. The lemmas
before are about sequences: what a byte lost, a byte come in, and bytes dropped
in front do to the two halves.

Only model-checked is liveness (`OrdersServed`, `Released`, `DangerStops`,
`JumpsStop`, `FrozenStops`, `Resyncs`), which is out of the prover's reach. Every
invariant, action property and refinement that a passing run checks is stated by
a theorem.

## 5. What is not modelled, and why

* how fast, at which angle and how hard to brake, and the ramp of `CANCreate`
  (with it, that TIM5 sends `canbuf`, `run.c:2479`, while the ramp writes it);
  NDT matching, its velocity filter and the voxel filter: numerics without
  control;
* the geometry of points, lane and path rows: reduced to the outcome of tests;
  the corridor test of `EndLineJudge` (`run.c:1877`), which is always true, shows there only
  as "a row may end at any time";
* the third wait of the dispatch node: its list of points is empty;
* `AGVwait` of the firmware: set by `w` frames and read by nothing;
* data that is in the code twice (the route map of the dispatch node and the
  tables of the firmware): the model has codes only;
* `now_task[50]` cleared up to index 50: a write outside the array has no
  meaning in the model; paths are shorter;
* launch files, the vendor's library, peripheral set-up. Of the 44,000 lines in
  the repository 35,000 are CMSIS and the standard peripheral library, and of
  the 9,600 of its own about a quarter is numerics, tables, register set-up and
  text that is commented out.

A path under way may be relabelled by a frame with another code whose switch
flag was lost (a pose frame replaced the first of its frames). The properties
of `VehicleTask` hold then as well; that the code reported is the code of the
path driven is what `VehicleTask_done` refutes, and the variant without
clearing is left to `TaskLink`. With the bridge dead, or the main loop stuck in
one of its waiting loops, nothing here is claimed.

## 6. Plan

In this order, each with its runs and, where it says so, its theorems:

1. `DispatchOrders`, `WaitGate`, `VehicleTask` with `Vehicle`; `ObstacleWatch`,
   `DriveControl`, `BridgeLink` with `Feedback`; `OrderService`, implemented by
   `DispatchOrders`; the proofs of section 4 (done).
2. `TaskLink`: the dispatch node's code, republication every 5 s and
   confirmation against the firmware's switch flag and `taskseq`. To show: under
   which publications a confirmation is for the task driven. Theorem: a
   confirmed task was published.
3. `NdtLocalizer`: map, matching, the velocity filter and its reset by the
   watchdog, with the poses it sends as the frames `DriveControl` reads.
4. `SpeedRamp`: the ramp and limits of `CANCreate` and the two timers that send
   and write the drive command.
