------------------------------ MODULE BatchLife ------------------------------
(***************************************************************************)
(* What the control plane promises about one batch, whoever calls it and   *)
(* however the calls interleave: the six edges of the batch state machine, *)
(* each with the reasons that may be stored with it.                       *)
(***************************************************************************)
EXTENDS BatchStates

CONSTANT None

VARIABLES status, stopReason

life == <<status, stopReason>>

Init == status = "PLANNED" /\ stopReason = None

Run == status \in {"PLANNED", "PAUSED"} /\ status' = "RUNNING" /\ stopReason' = None

Pause ==
    /\ status = "RUNNING"
    /\ status' = "PAUSED"
    /\ stopReason' \in PauseReasons

\* An operator's abort goes through PAUSED; what the system detects need not.
Abort ==
    /\ \/ status = "PAUSED" /\ stopReason' \in AbortReasons
       \/ status = "RUNNING" /\ stopReason' \in DetectedAbortReasons
    /\ status' = "ABORTED"

Complete ==
    /\ status = "RUNNING"
    /\ status' = "COMPLETED"
    /\ stopReason' \in CompleteReasons

Next == Run \/ Pause \/ Abort \/ Complete

Spec == Init /\ [][Next]_life
=============================================================================
