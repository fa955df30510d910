------------------------------ MODULE OrderService ------------------------------
(***************************************************************************)
(* What the dispatch node promises the server: one order at a time is       *)
(* carried out, its tasks in the sequence they were sent in, and the server *)
(* is told that it is finished when they are.  An order that an operator    *)
(* interrupts is begun again before any other; a takeover gives it up, and  *)
(* may tell the server that it is finished, it but no other.                *)
(***************************************************************************)
EXTENDS Naturals, Sequences

CONSTANTS
    OrderCodes,
    OrderTasks,  \* the tasks of each order
    NoOrder

VARIABLES
    open,     \* the orders the server has not been told are finished
    begun,    \* the order begun and neither finished nor given up, if any
    working,  \* it is being carried out, and not interrupted
    done      \* its tasks done since it was begun

service == <<open, begun, working, done>>

Init ==
    /\ open = OrderCodes
    /\ begun = NoOrder
    /\ working = FALSE
    /\ done = <<>>

Begin(o) ==
    /\ ~working /\ begun \in {NoOrder, o}
    /\ o \in open /\ OrderTasks[o] # <<>>
    /\ begun' = o /\ working' = TRUE /\ done' = <<>>
    /\ UNCHANGED open

\* A task is done, in its turn, and another follows.
Advance ==
    /\ working
    /\ Len(done) + 1 < Len(OrderTasks[begun])
    /\ done' = Append(done, OrderTasks[begun][Len(done) + 1])
    /\ UNCHANGED <<open, begun, working>>

GiveUp == begun' = NoOrder /\ working' = FALSE /\ done' = <<>>

\* The last task is done.  The report that says so may be lost.
Finish ==
    /\ working
    /\ Len(done) + 1 = Len(OrderTasks[begun])
    /\ GiveUp
    /\ open' \in {open, open \ {begun}}

\* An operator interrupts the work, or takes over.
Interrupt ==
    /\ working' = FALSE
    /\ UNCHANGED <<open, begun, done>>

Takeover ==
    /\ GiveUp
    /\ open' \in {open, open \ {begun}}

\* The node is started again.
Restart == GiveUp /\ UNCHANGED open

Next ==
    \/ \E o \in OrderCodes : Begin(o)
    \/ Advance \/ Finish
    \/ Interrupt \/ Takeover \/ Restart

Spec == Init /\ [][Next]_service

================================================================================
