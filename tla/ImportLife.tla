----------------------------- MODULE ImportLife -----------------------------
(***************************************************************************)
(* What the architecture document promises of the status of an import job. *)
(* PAUSED and CANCELLED are members of the enumeration that nothing sets.  *)
(***************************************************************************)
VARIABLE status

ImportStatus == {"PENDING", "RUNNING", "PAUSED", "COMPLETED", "FAILED", "CANCELLED"}

\* mark_running accepts these.
Startable == {"PENDING", "FAILED"}

Init == status = "PENDING"

Start == status \in Startable /\ status' = "RUNNING"
Complete == status = "RUNNING" /\ status' = "COMPLETED"
Fail == status = "RUNNING" /\ status' = "FAILED"

Next == Start \/ Complete \/ Fail

Spec == Init /\ [][Next]_status
=============================================================================
