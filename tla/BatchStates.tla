----------------------------- MODULE BatchStates -----------------------------
(***************************************************************************)
(* The status column of an IngestionBatch and the reasons stored with it:  *)
(* the vocabulary shared by the control plane (BatchControl), which moves  *)
(* a batch between statuses, and by the services that only read them.      *)
(***************************************************************************)

BatchStatus == {"PLANNED", "RUNNING", "PAUSED", "COMPLETED", "ABORTED"}

\* Statuses no transition leaves.
BatchFinal == {"COMPLETED", "ABORTED"}

PauseReasons == {"WORKSPACE_SOFT_STOP", "POSTGRES_SOFT_STOP", "MANUAL_PAUSE"}

CompleteReasons ==
    {"SOURCE_WORK_EXHAUSTED", "EXTRACTED_BYTES_ENVELOPE_EXHAUSTED",
     "EMBEDDINGS_ENVELOPE_EXHAUSTED", "RUNTIME_BUDGET_EXCEEDED"}

\* The reasons the guard or a safety check can report; MANUAL_ABORT is not
\* one of them.
DetectedAbortReasons ==
    {"WORKSPACE_HARD_STOP", "POSTGRES_HARD_STOP",
     "OLLAMA_PERSISTENTLY_UNREACHABLE", "SAFETY_INVARIANT_VIOLATION_DETECTED"}

AbortReasons == DetectedAbortReasons \cup {"MANUAL_ABORT"}

\* The statuses from which abort(reason) is accepted.
AbortLegalSources(reason) ==
    IF reason = "MANUAL_ABORT" THEN {"PAUSED"} ELSE {"RUNNING", "PAUSED"}

StopReasons == PauseReasons \cup CompleteReasons \cup AbortReasons

\* The six edges of the batch state machine, reasons left aside.
LegalTransition(from, to) ==
    \/ from = "PLANNED" /\ to = "RUNNING"
    \/ from = "RUNNING" /\ to \in {"PAUSED", "COMPLETED", "ABORTED"}
    \/ from = "PAUSED"  /\ to \in {"RUNNING", "ABORTED"}
=============================================================================
