-------------------------------- MODULE Vehicle --------------------------------
(***************************************************************************)
(* What the rest of the system may rely on from the vehicle: the task it    *)
(* works on is the one published last, its done byte is raised only for     *)
(* that task, and only parking and the emergency stop take it back.         *)
(***************************************************************************)
CONSTANTS
    Published,  \* dispatch codes the dispatch node can publish
    Codes,      \* those of them the firmware knows
    NoCode      \* 0, not among them: no task, nothing finished

VARIABLES task_sequence_request, taskseq, newAGVtaskover

vehicle == <<task_sequence_request, taskseq, newAGVtaskover>>

Init == /\ task_sequence_request = NoCode
        /\ taskseq = NoCode
        /\ newAGVtaskover = NoCode

Publish == /\ task_sequence_request' \in Published
           /\ UNCHANGED <<taskseq, newAGVtaskover>>

\* The next code may be published while this one is being taken up.
Receive == /\ task_sequence_request \in Codes
           /\ taskseq' = task_sequence_request
           /\ task_sequence_request' \in Published \cup {task_sequence_request}
           /\ UNCHANGED newAGVtaskover

Complete == /\ taskseq \in Codes
            /\ newAGVtaskover' = taskseq
            /\ UNCHANGED <<task_sequence_request, taskseq>>

EmergencyStop == /\ newAGVtaskover' = NoCode
                 /\ UNCHANGED <<task_sequence_request, taskseq>>

Park == /\ taskseq' = NoCode
        /\ newAGVtaskover' = NoCode
        /\ UNCHANGED task_sequence_request

Next == Publish \/ Receive \/ Complete \/ EmergencyStop \/ Park

Spec == Init /\ [][Next]_vehicle
================================================================================
