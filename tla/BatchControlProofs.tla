------------------------- MODULE BatchControlProofs -------------------------
(***************************************************************************)
(* Theorems about BatchControl.  The row's life needs only that a call in  *)
(* progress carries a reason of its own kind; the runtime needs, for one   *)
(* operator, an account of what that operator's book still owes the row.   *)
(* At the end, the theorem about the guard that a session consults.        *)
(***************************************************************************)
EXTENDS BatchControl, ResourceGuard, TLAPS

\* What a call that has reached its UPDATE asks for.
ReasonFits(o, r) ==
    /\ o = "pause" => r \in PauseReasons
    /\ o = "complete" => r \in CompleteReasons
    /\ o = "abort" => r \in AbortReasons

CallsFit == \A s \in Sessions : pc[s] = "update" => ReasonFits(op[s], reason[s])

\* The guard's hard stops are reasons to abort.
LEMMA HardStopsAbort ==
    ASSUME NEW verdict \in DiskVerdicts, verdict.tier = "HARD_STOP"
    PROVE  verdict.reason \in AbortReasons
<1>1. PICK w \in WorkspaceSamples, p \in PostgresSamples : verdict = CheckDisk(w, p)
  BY DEF DiskVerdicts
<1>2. /\ CheckWorkspaceDisk(w).tier = "HARD_STOP"
             => CheckWorkspaceDisk(w).reason = "WORKSPACE_HARD_STOP"
      /\ CheckPostgresDisk(p).tier = "HARD_STOP"
             => CheckPostgresDisk(p).reason = "POSTGRES_HARD_STOP"
  BY DEF CheckWorkspaceDisk, CheckPostgresDisk, WorkspaceReason, PostgresReason, Tier
<1>3. verdict = CheckWorkspaceDisk(w) \/ verdict = CheckPostgresDisk(p)
  BY <1>1 DEF CheckDisk
<1> QED
  BY <1>2, <1>3 DEF AbortReasons, DetectedAbortReasons

\* Whose step it is.
LEMMA NextSteps ==
    ASSUME TypeOK, [Next]_vars
    PROVE  \/ \E s \in Operators \cap scenario.active : s \in Sessions /\ Operate(s)
           \/ \E s \in Reconcilers \cap scenario.active : s \in Sessions /\ CheckAndComplete(s)
           \/ \E s \in scenario.active : s \in Sessions /\ Step(s)
           \/ Tick
           \/ UNCHANGED vars
BY ScenariosAssumption DEF Next, TypeOK, Sessions

\* The reasons of each operation are stop reasons.
LEMMA StopReasonKinds ==
    /\ PauseReasons \subseteq StopReasons
    /\ CompleteReasons \subseteq StopReasons
    /\ AbortReasons \subseteq StopReasons
BY DEF StopReasons

\* What an instance reads of the row is a status, and what it measured a duration.
LEMMA GetTyped ==
    ASSUME TypeOK, NEW s \in Sessions
    PROVE  Get(s) \in BatchStatus /\ PeekSessionDelta(s) \in Nat
<1>1. Get(s) \in BatchStatus
  BY DEF TypeOK, RowTypeOK, InstanceTypeOK, Get
<1>2. CASE sessionStart[s] = None
  BY <1>1, <1>2 DEF PeekSessionDelta
<1>3. CASE sessionStart[s] # None
  BY <1>1, <1>3 DEF TypeOK, InstanceTypeOK, ClockTypeOK, PeekSessionDelta
<1> QED
  BY <1>2, <1>3

\* Every operation leads to a status.
LEMMA TargetTyped ==
    ASSUME NEW o \in Ops
    PROVE  Target[o] \in BatchStatus
BY DEF Ops, Target, BatchStatus

\* Types of the calls, when one ends.
LEMMA FinishTyped ==
    ASSUME TypeOK, NEW s \in Sessions, Finish(s)
    PROVE  /\ pc' \in [Sessions -> Steps] /\ op' \in [Sessions -> Ops]
           /\ reason' \in [Sessions -> StopReasons \cup {None}] /\ delta' \in [Sessions -> Nat]
           /\ applied' \subseteq Sessions
           /\ stopsSince' \in [Sessions -> SUBSET Ops]
BY DEF TypeOK, InstanceTypeOK, ClockTypeOK, Finish, Steps, Ops

\* Types of the calls, when one is submitted.
LEMMA SubmitTyped ==
    ASSUME TypeOK, NEW s \in Sessions, NEW o \in Ops, NEW r \in StopReasons \cup {None},
           NEW d \in Nat, Submit(s, o, r, d)
    PROVE  /\ pc' \in [Sessions -> Steps] /\ op' \in [Sessions -> Ops]
           /\ reason' \in [Sessions -> StopReasons \cup {None}] /\ delta' \in [Sessions -> Nat]
BY DEF TypeOK, InstanceTypeOK, Submit, Steps

\* The three ways a call can go on without touching the row.
LEMMA RequestsTyped ==
    ASSUME TypeOK, NEW s \in Sessions,
           RequestStart(s) \/ RequestStop(s) \/ RequestResume(s) \/ CheckAndComplete(s)
    PROVE  InstanceTypeOK'
<1>1. CASE RequestStart(s)
  <2>1. "start" \in Ops /\ None \in StopReasons \cup {None} /\ 0 \in Nat
    BY DEF Ops
  <2> QED
    BY <1>1, <2>1, SubmitTyped DEF RequestStart, NoResult, Unwritten, TypeOK, InstanceTypeOK
<1>2. CASE RequestStop(s)
  <2>1. PICK r \in Reasons :
            \/ r \in PauseReasons /\ Submit(s, "pause", r, PeekSessionDelta(s))
            \/ r \in AbortReasons /\ Submit(s, "abort", r, PeekSessionDelta(s))
            \/ r \in CompleteReasons /\ Submit(s, "complete", r, PeekSessionDelta(s))
    BY <1>2 DEF RequestStop
  <2>2. r \in StopReasons \cup {None} /\ PeekSessionDelta(s) \in Nat
    BY GetTyped, ReasonsAssumption
  <2>3. {"pause", "abort", "complete"} \subseteq Ops
    BY DEF Ops
  <2>4. /\ pc' \in [Sessions -> Steps] /\ op' \in [Sessions -> Ops]
        /\ reason' \in [Sessions -> StopReasons \cup {None}] /\ delta' \in [Sessions -> Nat]
    BY <2>1, <2>2, <2>3, SubmitTyped
  <2> QED
    BY <1>2, <2>4 DEF RequestStop, NoResult, Unwritten, TypeOK, InstanceTypeOK
<1>3. CASE RequestResume(s)
  BY <1>3, GetTyped DEF RequestResume, NoResult, Unwritten, callVars, TypeOK, InstanceTypeOK, Steps
<1>4. CASE CheckAndComplete(s)
  BY <1>4, GetTyped DEF CheckAndComplete, NoResult, Unwritten, callVars, TypeOK, InstanceTypeOK, Steps
<1> QED
  BY <1>1, <1>2, <1>3, <1>4

\* Types, when a resumption looks at the disks, or a completion at the report.
LEMMA DecisionsTyped ==
    ASSUME TypeOK, NEW s \in Sessions, ResumeGuard(s) \/ Report(s)
    PROVE  InstanceTypeOK' /\ stopsSince' \in [Sessions -> SUBSET Ops]
<1>1. PeekSessionDelta(s) \in Nat /\ {"abort", "resume", "complete"} \subseteq Ops
  BY GetTyped DEF Ops
<1>2. CASE ResumeGuard(s)
  <2>1. PICK verdict \in DiskVerdicts :
            \/ /\ verdict.tier = "HARD_STOP"
               /\ Submit(s, "abort", verdict.reason, PeekSessionDelta(s)) /\ NoResult
            \/ verdict.tier = "SOFT_STOP" /\ Finish(s)
            \/ verdict.tier = "NORMAL" /\ Submit(s, "resume", None, 0) /\ NoResult
    BY <1>2 DEF ResumeGuard
  <2>2. CASE /\ verdict.tier = "HARD_STOP"
             /\ Submit(s, "abort", verdict.reason, PeekSessionDelta(s)) /\ NoResult
    <3>1. verdict.reason \in StopReasons \cup {None}
      BY <2>2, HardStopsAbort, StopReasonKinds
    <3> QED
      BY <1>1, <1>2, <2>2, <3>1, SubmitTyped
      DEF ResumeGuard, NoResult, Unwritten, TypeOK, InstanceTypeOK, ClockTypeOK
  <2>3. CASE Finish(s)
    BY <1>2, <2>3, FinishTyped DEF ResumeGuard, Unwritten, TypeOK, InstanceTypeOK
  <2>4. CASE Submit(s, "resume", None, 0) /\ NoResult
    BY <1>1, <1>2, <2>4, SubmitTyped
    DEF ResumeGuard, NoResult, Unwritten, TypeOK, InstanceTypeOK, ClockTypeOK
  <2> QED
    BY <2>1, <2>2, <2>3, <2>4
<1>3. CASE Report(s)
  <2>1. CASE Submit(s, "complete", "SOURCE_WORK_EXHAUSTED", PeekSessionDelta(s)) /\ NoResult
    <3>1. "SOURCE_WORK_EXHAUSTED" \in StopReasons \cup {None}
      BY StopReasonKinds DEF CompleteReasons
    <3> QED
      BY <1>1, <1>3, <2>1, <3>1, SubmitTyped
      DEF Report, NoResult, Unwritten, TypeOK, InstanceTypeOK, ClockTypeOK
  <2>2. CASE Finish(s)
    BY <1>3, <2>2, FinishTyped DEF Report, Unwritten, TypeOK, InstanceTypeOK
  <2> QED
    BY <1>3, <2>1, <2>2 DEF Report
<1> QED
  BY <1>2, <1>3

\* Types, when the row is written or the write loses.
LEMMA UpdateTyped ==
    ASSUME TypeOK, NEW s \in Sessions, Update(s)
    PROVE  RowTypeOK' /\ InstanceTypeOK' /\ ClockTypeOK'
<1>1. op[s] \in Ops /\ Target[op[s]] \in BatchStatus /\ NewReason(s) \in StopReasons \cup {None}
      /\ StampsAfter(s) \subseteq {"started_at", "completed_at"} /\ consumed + delta[s] \in Nat
  BY TargetTyped DEF TypeOK, RowTypeOK, InstanceTypeOK, NewReason, StampsAfter
<1>2. RowTypeOK' /\ applied' \subseteq Sessions
  BY <1>1 DEF Update, WriteRow, rowVars, TypeOK, RowTypeOK, InstanceTypeOK
<1>3. stopsSince' \in [Sessions -> SUBSET Ops]
  <2>1. CASE WriteRow(s)
    BY <1>1, <2>1 DEF WriteRow, TypeOK, ClockTypeOK
  <2>2. CASE UNCHANGED stopsSince
    BY <2>2 DEF TypeOK, ClockTypeOK
  <2> QED
    BY <2>1, <2>2 DEF Update
<1>4. view' \in [Sessions -> BatchStatus \cup {None}]
  <2>1. PICK v \in ViewsAfterUpdate(s) : view' = [view EXCEPT ![s] = v]
    BY DEF Update
  <2>2. v \in BatchStatus \cup {None}
    BY <1>1, <2>1 DEF ViewsAfterUpdate, TypeOK, InstanceTypeOK
  <2> QED
    BY <2>1, <2>2 DEF TypeOK, InstanceTypeOK
<1>5. InstanceTypeOK'
  BY <1>2, <1>4 DEF Update, callVars, TypeOK, InstanceTypeOK, Steps
<1>6. ClockTypeOK'
  BY <1>3 DEF Update, clockVars, TypeOK, ClockTypeOK
<1> QED
  BY <1>2, <1>5, <1>6

\* Types, when a call returns, or its process forgets or dies.
LEMMA EndsTyped ==
    ASSUME TypeOK, NEW s \in Sessions, Return(s) \/ Forget(s) \/ Restart(s)
    PROVE  RowTypeOK' /\ InstanceTypeOK' /\ ClockTypeOK'
<1>1. CASE Return(s)
  <2>1. BookAfter(s) \in Nat \cup {None} /\ (BookAfter(s) # None => BookAfter(s) <= now)
    BY <1>1 DEF BookAfter, TypeOK, InstanceTypeOK, ClockTypeOK
  <2> QED
    BY <1>1, <2>1, GetTyped, FinishTyped
    DEF Return, rowVars, clockVars, TypeOK, RowTypeOK, InstanceTypeOK, ClockTypeOK
<1>2. CASE Forget(s)
  BY <1>2 DEF Forget, callVars, NoResult, Unwritten, rowVars, clockVars,
              TypeOK, RowTypeOK, InstanceTypeOK, ClockTypeOK
<1>3. CASE Restart(s)
  BY <1>3, FinishTyped
  DEF Restart, rowVars, clockVars, TypeOK, RowTypeOK, InstanceTypeOK, ClockTypeOK
<1> QED
  BY <1>1, <1>2, <1>3

\* Types, when time passes.
LEMMA TickTyped ==
    ASSUME TypeOK, Tick
    PROVE  RowTypeOK' /\ InstanceTypeOK' /\ ClockTypeOK'
BY DEF Tick, rowVars, callVars, TypeOK, RowTypeOK, InstanceTypeOK, ClockTypeOK

\* Every variable has its type in every reachable state.
THEOREM TypeCorrect == Spec => []TypeOK
<1>1. Init => TypeOK
  BY DEF Init, TypeOK, RowTypeOK, InstanceTypeOK, ClockTypeOK, BatchStatus, Steps, Ops
<1>2. TypeOK /\ [Next]_vars => TypeOK'
  <2> SUFFICES ASSUME TypeOK, [Next]_vars PROVE TypeOK'
    OBVIOUS
  <2>1. ASSUME NEW s \in Sessions,
               RequestStart(s) \/ RequestStop(s) \/ RequestResume(s) \/ CheckAndComplete(s)
        PROVE  RowTypeOK' /\ InstanceTypeOK' /\ ClockTypeOK'
    BY <2>1, RequestsTyped, ZenonT(60)
    DEF RequestStart, RequestStop, RequestResume, CheckAndComplete, NoResult, Unwritten,
        rowVars, clockVars, TypeOK, RowTypeOK, ClockTypeOK
  <2>2. ASSUME NEW s \in Sessions, ResumeGuard(s) \/ Report(s)
        PROVE  RowTypeOK' /\ InstanceTypeOK' /\ ClockTypeOK'
    BY <2>2, DecisionsTyped
    DEF ResumeGuard, Report, Unwritten, rowVars, clockVars, TypeOK, RowTypeOK, ClockTypeOK
  <2>3. ASSUME NEW s \in Sessions, Update(s) \/ Return(s) \/ Forget(s) \/ Restart(s)
        PROVE  RowTypeOK' /\ InstanceTypeOK' /\ ClockTypeOK'
    BY <2>3, UpdateTyped, EndsTyped
  <2>4. CASE UNCHANGED vars
    BY <2>4 DEF vars, rowVars, callVars, clockVars, TypeOK, RowTypeOK, InstanceTypeOK, ClockTypeOK
  <2>5. RowTypeOK' /\ InstanceTypeOK' /\ ClockTypeOK'
    BY <2>1, <2>2, <2>3, <2>4, TickTyped, NextSteps DEF Operate, Step, TypeOK
  <2>6. scenario' \in Scenarios
    BY DEF Next, vars, TypeOK
  <2> QED
    BY <2>5, <2>6 DEF TypeOK
<1> QED
  BY <1>1, <1>2, PTL DEF Spec
-----------------------------------------------------------------------------
\* A call is submitted with a reason of its operation.
LEMMA SubmitFits ==
    ASSUME TypeOK, CallsFit, NEW s \in Sessions, NEW o, NEW r, NEW d,
           Submit(s, o, r, d), ReasonFits(o, r)
    PROVE  CallsFit'
BY DEF TypeOK, InstanceTypeOK, Submit, CallsFit

\* The calls that go on keep their reasons.
LEMMA FinishFits ==
    ASSUME TypeOK, CallsFit, NEW s \in Sessions, Finish(s)
    PROVE  CallsFit'
<1>1. pc'[s] = "idle" /\ \A t \in Sessions \ {s} : pc'[t] = pc[t] /\ op'[t] = op[t] /\ reason'[t] = reason[t]
  BY DEF TypeOK, InstanceTypeOK, Finish
<1> QED
  BY <1>1 DEF CallsFit

\* A step by any instance leaves every call with a reason of its own kind.
LEMMA CallsStayFit ==
    ASSUME TypeOK, CallsFit, [Next]_vars
    PROVE  CallsFit'
<1>1. ASSUME NEW s \in Sessions, RequestStart(s) PROVE CallsFit'
  <2>1. ReasonFits("start", None)
    BY DEF ReasonFits
  <2> QED
    BY <1>1, <2>1, SubmitFits DEF RequestStart
<1>2. ASSUME NEW s \in Sessions, RequestStop(s) PROVE CallsFit'
  <2>1. PICK r \in Reasons :
            \/ r \in PauseReasons /\ Submit(s, "pause", r, PeekSessionDelta(s))
            \/ r \in AbortReasons /\ Submit(s, "abort", r, PeekSessionDelta(s))
            \/ r \in CompleteReasons /\ Submit(s, "complete", r, PeekSessionDelta(s))
    BY <1>2 DEF RequestStop
  <2>2. /\ r \in PauseReasons => ReasonFits("pause", r)
        /\ r \in AbortReasons => ReasonFits("abort", r)
        /\ r \in CompleteReasons => ReasonFits("complete", r)
    BY DEF ReasonFits
  <2> QED
    BY <2>1, <2>2, SubmitFits
<1>3. ASSUME NEW s \in Sessions, RequestResume(s) \/ CheckAndComplete(s) PROVE CallsFit'
  BY <1>3 DEF RequestResume, CheckAndComplete, callVars, TypeOK, InstanceTypeOK, CallsFit
<1>4. ASSUME NEW s \in Sessions, ResumeGuard(s) PROVE CallsFit'
  <2>1. PICK verdict \in DiskVerdicts :
            \/ /\ verdict.tier = "HARD_STOP"
               /\ Submit(s, "abort", verdict.reason, PeekSessionDelta(s)) /\ NoResult
            \/ verdict.tier = "SOFT_STOP" /\ Finish(s)
            \/ verdict.tier = "NORMAL" /\ Submit(s, "resume", None, 0) /\ NoResult
    BY <1>4 DEF ResumeGuard
  <2>2. /\ verdict.tier = "HARD_STOP" => ReasonFits("abort", verdict.reason)
        /\ ReasonFits("resume", None)
    BY HardStopsAbort DEF ReasonFits
  <2> QED
    BY <2>1, <2>2, SubmitFits, FinishFits
<1>5. ASSUME NEW s \in Sessions, Report(s) PROVE CallsFit'
  <2>1. ReasonFits("complete", "SOURCE_WORK_EXHAUSTED")
    BY DEF ReasonFits, CompleteReasons
  <2> QED
    BY <1>5, <2>1, SubmitFits, FinishFits DEF Report
<1>6. ASSUME NEW s \in Sessions, Update(s) PROVE CallsFit'
  BY <1>6 DEF Update, callVars, TypeOK, InstanceTypeOK, CallsFit
<1>7. ASSUME NEW s \in Sessions, Return(s) \/ Restart(s) PROVE CallsFit'
  BY <1>7, FinishFits DEF Return, Restart
<1>8. ASSUME UNCHANGED <<pc, callVars>> PROVE CallsFit'
  BY <1>8 DEF callVars, CallsFit
<1>9. UNCHANGED vars \/ Tick \/ (\E s \in Sessions : Forget(s)) => UNCHANGED <<pc, callVars>>
  BY DEF vars, Tick, Forget, callVars
<1> QED
  BY <1>1, <1>2, <1>3, <1>4, <1>5, <1>6, <1>7, <1>8, <1>9, NextSteps DEF Operate, Step

\* Only an UPDATE that matched the row changes it.
LEMMA RowChanges ==
    ASSUME TypeOK, [Next]_vars
    PROVE  \/ UNCHANGED rowVars
           \/ \E s \in Sessions : Update(s) /\ Matches(s) /\ WriteRow(s)
<1>1. ASSUME NEW s \in Sessions, Operate(s) \/ CheckAndComplete(s) PROVE UNCHANGED rowVars
  BY <1>1 DEF Operate, RequestStart, RequestStop, RequestResume, CheckAndComplete, Unwritten
<1>2. ASSUME NEW s \in Sessions, Step(s)
      PROVE  UNCHANGED rowVars \/ (Update(s) /\ Matches(s) /\ WriteRow(s))
  BY <1>2 DEF Step, ResumeGuard, Report, Update, Return, Forget, Restart, Unwritten
<1> QED
  BY <1>1, <1>2, NextSteps DEF Tick, vars

\* What such an UPDATE does to status and reason, operation by operation.
LEMMA UpdateIsLife ==
    ASSUME TypeOK, CallsFit, NEW s \in Sessions, Update(s), Matches(s), WriteRow(s)
    PROVE  \/ /\ op[s] = "start" /\ status = "PLANNED"
              /\ status' = "RUNNING" /\ stopReason' = None
           \/ /\ op[s] = "resume" /\ status = "PAUSED"
              /\ status' = "RUNNING" /\ stopReason' = None
           \/ /\ op[s] = "pause" /\ status = "RUNNING"
              /\ status' = "PAUSED" /\ stopReason' \in PauseReasons
           \/ /\ op[s] = "complete" /\ status = "RUNNING"
              /\ status' = "COMPLETED" /\ stopReason' \in CompleteReasons
           \/ /\ op[s] = "abort" /\ status' = "ABORTED"
              /\ \/ status = "PAUSED" /\ stopReason' \in AbortReasons
                 \/ status = "RUNNING" /\ stopReason' \in DetectedAbortReasons
<1>1. op[s] \in Ops /\ ReasonFits(op[s], reason[s])
      /\ status \in Expected(op[s], reason[s])
      /\ status' = Target[op[s]] /\ stopReason' = NewReason(s)
  BY DEF TypeOK, InstanceTypeOK, CallsFit, Update, Matches, WriteRow
<1>2. CASE op[s] \in {"start", "resume"}
  BY <1>1, <1>2 DEF Expected, Target, NewReason
<1>3. CASE op[s] \in {"pause", "complete"}
  BY <1>1, <1>3 DEF Expected, Target, NewReason, ReasonFits
<1>4. CASE op[s] = "abort"
  BY <1>1, <1>4 DEF Expected, Target, NewReason, ReasonFits, AbortLegalSources, AbortReasons
<1> QED
  BY <1>1, <1>2, <1>3, <1>4 DEF Ops

CallInv == TypeOK /\ CallsFit

\* What the calls rest on holds in every reachable state.
LEMMA CallInvHolds == Spec => []CallInv
<1>1. Init => CallsFit
  BY DEF Init, CallsFit
<1>2. TypeOK /\ CallsFit /\ [Next]_vars => CallsFit'
  BY CallsStayFit
<1> QED
  BY <1>1, <1>2, TypeCorrect, PTL DEF Spec, CallInv

\* The row follows the six edges of the batch state machine: BatchControl
\* implements BatchLife.
THEOREM ControlFollowsLife == Spec => FollowsLife
<1>1. Init => Life!Init
  BY DEF Init, Life!Init
<1>2. CallInv /\ [Next]_vars => [Life!Next]_(Life!life)
  <2> SUFFICES ASSUME CallInv, [Next]_vars PROVE [Life!Next]_(Life!life)
    OBVIOUS
  <2>1. CASE UNCHANGED rowVars
    BY <2>1 DEF rowVars, Life!life
  <2>2. ASSUME NEW s \in Sessions, Update(s), Matches(s), WriteRow(s) PROVE Life!Next
    BY <2>2, UpdateIsLife
    DEF CallInv, Life!Next, Life!Run, Life!Pause, Life!Abort, Life!Complete,
        Life!PauseReasons, Life!AbortReasons, Life!DetectedAbortReasons, Life!CompleteReasons,
        PauseReasons, AbortReasons, DetectedAbortReasons, CompleteReasons
  <2> QED
    BY <2>1, <2>2, RowChanges DEF CallInv
<1> QED
  BY <1>1, <1>2, CallInvHolds, PTL DEF Spec, FollowsLife, Life!Spec

\* Reason and timestamps always agree with the status.
THEOREM RowStaysConsistent == Spec => []RowConsistent
<1>1. Init => RowConsistent
  BY DEF Init, RowConsistent, BatchFinal
<1>2. CallInv /\ RowConsistent /\ [Next]_vars => RowConsistent'
  <2> SUFFICES ASSUME CallInv, RowConsistent, [Next]_vars PROVE RowConsistent'
    OBVIOUS
  <2>1. CASE UNCHANGED rowVars
    BY <2>1 DEF rowVars, RowConsistent
  <2>2. ASSUME NEW s \in Sessions, Update(s), Matches(s), WriteRow(s) PROVE RowConsistent'
    <3>1. stamps' = StampsAfter(s)
      BY <2>2 DEF WriteRow
    <3>2. None \notin StopReasons
      BY NoneAssumption
    <3>3. CASE op[s] = "start" \/ op[s] = "resume"
      BY <2>2, <3>1, <3>3, UpdateIsLife DEF CallInv, RowConsistent, BatchFinal, StampsAfter
    <3>4. CASE op[s] = "pause" \/ op[s] = "complete"
      BY <2>2, <3>1, <3>2, <3>4, StopReasonKinds, UpdateIsLife
      DEF CallInv, RowConsistent, BatchFinal, StampsAfter
    <3>5. CASE op[s] = "abort"
      BY <2>2, <3>1, <3>2, <3>5, StopReasonKinds, UpdateIsLife
      DEF CallInv, RowConsistent, BatchFinal, StampsAfter, AbortReasons
    <3> QED
      BY <3>3, <3>4, <3>5 DEF CallInv, TypeOK, InstanceTypeOK, Ops
  <2> QED
    BY <2>1, <2>2, RowChanges DEF CallInv
<1> QED
  BY <1>1, <1>2, CallInvHolds, PTL DEF Spec
-----------------------------------------------------------------------------
\* A stop that no resume has undone keeps the batch stopped.
StopsHold == \A s \in Sessions : stopsSince[s] # {} => status \in {"PAUSED", "COMPLETED", "ABORTED"}

\* Nothing but a resumption starts a batch that was stopped.
LEMMA StopsKeepHolding ==
    ASSUME CallInv, StopsHold, [Next]_vars
    PROVE  StopsHold'
<1>1. CASE UNCHANGED <<rowVars, stopsSince>>
  BY <1>1 DEF rowVars, StopsHold
<1>2. ASSUME NEW s \in Sessions, Finish(s), UNCHANGED rowVars PROVE StopsHold'
  BY <1>2 DEF Finish, rowVars, StopsHold, CallInv, TypeOK, ClockTypeOK
<1>3. ASSUME NEW s \in Sessions, Update(s), Matches(s), WriteRow(s) PROVE StopsHold'
  <2>1. stopsSince' = [t \in Sessions |->
            IF op[s] = "resume" THEN {}
            ELSE IF op[s] \in Stops /\ t # s /\ pc[t] # "idle"
            THEN stopsSince[t] \cup {op[s]} ELSE stopsSince[t]]
    BY <1>3 DEF WriteRow
  <2>2. status' \in {"PAUSED", "COMPLETED", "ABORTED"} \/ op[s] = "resume"
        \/ (op[s] = "start" /\ status = "PLANNED")
    BY <1>3, UpdateIsLife DEF CallInv
  <2> QED
    BY <2>1, <2>2 DEF StopsHold, Stops
<1>4. ASSUME NEW s \in Sessions, Operate(s) \/ CheckAndComplete(s)
      PROVE  UNCHANGED <<rowVars, stopsSince>>
  BY <1>4 DEF Operate, RequestStart, RequestStop, RequestResume, CheckAndComplete, Unwritten, NoResult
<1>5. ASSUME NEW s \in Sessions, Step(s)
      PROVE  \/ UNCHANGED <<rowVars, stopsSince>>
             \/ Finish(s) /\ UNCHANGED rowVars
             \/ Update(s) /\ Matches(s) /\ WriteRow(s)
  BY <1>5 DEF Step, ResumeGuard, Report, Update, Return, Forget, Restart, Unwritten, NoResult
<1>6. Tick \/ UNCHANGED vars => UNCHANGED <<rowVars, stopsSince>>
  BY DEF Tick, vars
<1> QED
  BY <1>1, <1>2, <1>3, <1>4, <1>5, <1>6, NextSteps DEF CallInv

\* A pause or completion is never applied on top of a stop made since the call
\* began, unless a resume came between.
THEOREM StopsAreExclusive == Spec => StopWins
<1>1. Init => StopsHold
  BY DEF Init, StopsHold
<1>2. CallInv /\ StopsHold /\ [Next]_vars => StopsHold'
  BY StopsKeepHolding
<1>3. CallInv /\ StopsHold /\ [Next]_vars
        => [\A s \in Sessions :
              (pc[s] = "update" /\ pc'[s] = "return" /\ s \in applied' /\ op[s] \in {"pause", "complete"})
                  => stopsSince[s] = {}]_vars
  <2> SUFFICES ASSUME CallInv, StopsHold, [Next]_vars, NEW s \in Sessions,
                      pc[s] = "update", pc'[s] = "return", s \in applied',
                      op[s] \in {"pause", "complete"}
               PROVE  stopsSince[s] = {}
    OBVIOUS
  <2>1. ASSUME NEW t \in Sessions, Operate(t) \/ CheckAndComplete(t) PROVE FALSE
    <3>1. pc' = [pc EXCEPT ![t] = pc'[t]] /\ pc'[t] # "return"
      BY <2>1 DEF Operate, RequestStart, RequestStop, RequestResume, CheckAndComplete, Submit,
                  CallInv, TypeOK, InstanceTypeOK
    <3> QED
      BY <3>1 DEF CallInv, TypeOK, InstanceTypeOK
  <2>2. ASSUME NEW t \in Sessions, Step(t) PROVE t = s /\ Update(s)
    <3>1. pc' = [pc EXCEPT ![t] = pc'[t]] /\ (pc'[t] = "return" => Update(t) \/ pc[t] = "return")
      BY <2>2 DEF Step, ResumeGuard, Report, Update, Return, Forget, Restart, Submit, Finish,
                  CallInv, TypeOK, InstanceTypeOK
    <3> QED
      BY <3>1 DEF CallInv, TypeOK, InstanceTypeOK
  <2>3. ~ Tick /\ ~ UNCHANGED vars
    BY DEF Tick, vars
  <2>4. Update(s)
    BY <2>1, <2>2, <2>3, NextSteps DEF CallInv
  <2>5. Matches(s)
    BY <2>4 DEF Update, CallInv, TypeOK, InstanceTypeOK
  <2>6. status = "RUNNING"
    BY <2>5 DEF Matches, Expected
  <2> QED
    BY <2>6 DEF StopsHold
<1> QED
  BY <1>1, <1>2, <1>3, CallInvHolds, PTL DEF Spec, StopWins
-----------------------------------------------------------------------------
\* With one operator o, the instances of the reconcilers never keep a book and
\* contribute nothing; what o's book or o's call would add to the row is never
\* more than the running time the row still lacks, and nothing while PAUSED.
ReconcilersKeepNoBook ==
    \A s \in Reconcilers :
        /\ sessionStart[s] = None
        /\ pc[s] # "guard"
        /\ pc[s] \in {"update", "return"} => op[s] = "complete" /\ delta[s] = 0

BookOwed(o) ==
    /\ status = "PLANNED" => sessionStart[o] = None
    /\ status = "PAUSED" =>
          sessionStart[o] = None \/ (pc[o] = "return" /\ op[o] \in Stops /\ o \in applied)
    /\ status = "RUNNING" /\ sessionStart[o] # None => consumed + (now - sessionStart[o]) <= ran

CallOwed(o) ==
    /\ pc[o] = "update" =>
          /\ op[o] \notin Stops => delta[o] = 0
          /\ status = "RUNNING" => consumed + delta[o] <= ran
          /\ status = "PAUSED" => delta[o] = 0
    /\ pc[o] = "return" /\ o \in applied /\ op[o] \notin Stops => status \notin {"PLANNED", "PAUSED"}

RuntimeInv(o) ==
    /\ consumed <= ran
    /\ ReconcilersKeepNoBook
    /\ BookOwed(o)
    /\ CallOwed(o)
\* An instance changes nothing that another one keeps.
LEMMA InstancesAreLocal ==
    ASSUME TypeOK, NEW s \in Sessions, NEW t \in Sessions, t # s,
           Operate(s) \/ CheckAndComplete(s) \/ Step(s)
    PROVE  /\ pc'[t] = pc[t] /\ op'[t] = op[t] /\ delta'[t] = delta[t]
           /\ sessionStart'[t] = sessionStart[t] /\ (t \in applied' <=> t \in applied)
<1>1. CASE Operate(s) \/ CheckAndComplete(s)
  BY <1>1 DEF Operate, RequestStart, RequestStop, RequestResume, CheckAndComplete, Submit,
              NoResult, Unwritten, callVars, TypeOK, InstanceTypeOK
<1>2. CASE ResumeGuard(s) \/ Report(s)
  BY <1>2 DEF ResumeGuard, Report, Submit, Finish, NoResult, Unwritten, TypeOK, InstanceTypeOK
<1>3. CASE Update(s) \/ Return(s) \/ Forget(s) \/ Restart(s)
  BY <1>3 DEF Update, WriteRow, Return, Forget, Restart, Finish, NoResult, Unwritten, callVars,
              TypeOK, InstanceTypeOK
<1> QED
  BY <1>1, <1>2, <1>3 DEF Step

\* The steps of o that leave the row alone.
LEMMA RequestsOwe ==
    ASSUME CallInv, NEW o \in Sessions, RuntimeInv(o),
           Operate(o) \/ ResumeGuard(o) \/ Report(o), o \notin Reconcilers
    PROVE  BookOwed(o)' /\ CallOwed(o)'
<1> DEFINE d == PeekSessionDelta(o)
<1>1. UNCHANGED <<status, consumed, ran, now, sessionStart>> /\ pc[o] # "return"
  BY DEF Operate, RequestStart, RequestStop, RequestResume, ResumeGuard, Report, Unwritten,
         rowVars, clockVars
<1>2. BookOwed(o)'
  BY <1>1 DEF RuntimeInv, BookOwed
<1>3. d \in Nat /\ (status = "RUNNING" => consumed + d <= ran) /\ (status = "PAUSED" => d = 0)
  <2>1. CASE sessionStart[o] = None
    BY <2>1 DEF PeekSessionDelta, RuntimeInv, CallInv, TypeOK, RowTypeOK, ClockTypeOK
  <2>2. CASE sessionStart[o] # None
    BY <1>1, <2>2, GetTyped DEF PeekSessionDelta, RuntimeInv, BookOwed, CallInv
  <2> QED
    BY <2>1, <2>2
<1>4. \/ pc'[o] \notin {"update", "return"}
      \/ pc'[o] = "update" /\ op'[o] \notin Stops /\ delta'[o] = 0
      \/ pc'[o] = "update" /\ op'[o] \in Stops /\ delta'[o] = d
  <2>1. CASE RequestStart(o)
    BY <2>1 DEF RequestStart, Submit, Stops, CallInv, TypeOK, InstanceTypeOK
  <2>2. CASE RequestStop(o)
    BY <2>2 DEF RequestStop, Submit, Stops, CallInv, TypeOK, InstanceTypeOK
  <2>3. CASE RequestResume(o)
    BY <2>3 DEF RequestResume, CallInv, TypeOK, InstanceTypeOK
  <2>4. CASE ResumeGuard(o)
    BY <2>4 DEF ResumeGuard, Submit, Finish, Stops, CallInv, TypeOK, InstanceTypeOK
  <2>5. CASE Report(o)
    BY <2>5 DEF Report, Submit, Finish, Stops, CallInv, TypeOK, InstanceTypeOK
  <2> QED
    BY <2>1, <2>2, <2>3, <2>4, <2>5 DEF Operate
<1>5. CallOwed(o)'
  BY <1>1, <1>3, <1>4 DEF CallOwed, RuntimeInv, CallInv, TypeOK, RowTypeOK, ClockTypeOK
<1> QED
  BY <1>2, <1>5

\* What o's UPDATE writes was owed.
LEMMA UpdateOwes ==
    ASSUME CallInv, NEW o \in Sessions, RuntimeInv(o), Update(o)
    PROVE  consumed' <= ran' /\ BookOwed(o)' /\ CallOwed(o)'
<1>1. UNCHANGED <<ran, now, sessionStart, op, delta>> /\ pc'[o] = "return" /\ pc[o] = "update"
  BY DEF Update, callVars, clockVars, CallInv, TypeOK, InstanceTypeOK
<1>2. CASE ~Matches(o) /\ UNCHANGED rowVars
  <2>1. o \notin applied'
    BY <1>2 DEF Update
  <2> QED
    BY <1>1, <1>2, <2>1 DEF rowVars, RuntimeInv, BookOwed, CallOwed
<1>3. CASE Matches(o) /\ WriteRow(o)
  <2>1. consumed' = consumed + delta[o] /\ applied' = applied \cup {o}
        /\ consumed \in Nat /\ ran \in Nat /\ delta[o] \in Nat
    BY <1>3 DEF WriteRow, CallInv, TypeOK, RowTypeOK, InstanceTypeOK, ClockTypeOK
  <2>2. CASE op[o] \in {"start", "resume"}
    <3>1. delta[o] = 0 /\ sessionStart[o] = None /\ status' = "RUNNING"
      BY <1>1, <1>3, <2>2, UpdateIsLife DEF CallInv, RuntimeInv, BookOwed, CallOwed, Stops
    <3> QED
      BY <1>1, <2>1, <3>1 DEF RuntimeInv, BookOwed, CallOwed
  <2>3. CASE op[o] \in Stops
    <3>1. status \in {"RUNNING", "PAUSED"} /\ status' \in {"PAUSED", "COMPLETED", "ABORTED"}
      BY <1>3, <2>3, UpdateIsLife DEF CallInv, Stops
    <3>2. consumed' <= ran
      BY <1>1, <2>1, <3>1 DEF RuntimeInv, CallOwed
    <3> QED
      BY <1>1, <2>1, <2>3, <3>1, <3>2 DEF BookOwed, CallOwed
  <2> QED
    BY <2>2, <2>3 DEF CallInv, TypeOK, InstanceTypeOK, Ops, Stops
<1> QED
  BY <1>2, <1>3 DEF Update

\* A call that returns, or a process that forgets or dies, owes no more runtime.
LEMMA EndsOwe ==
    ASSUME CallInv, NEW o \in Sessions, RuntimeInv(o), Return(o) \/ Forget(o) \/ Restart(o)
    PROVE  BookOwed(o)' /\ CallOwed(o)'
<1>1. UNCHANGED <<status, consumed, ran, now>> /\ pc'[o] = "idle"
  BY DEF Return, Forget, Restart, Finish, Unwritten, rowVars, clockVars, CallInv, TypeOK, InstanceTypeOK
<1>2. CallOwed(o)'
  BY <1>1 DEF CallOwed
<1>3. CASE Forget(o)
  BY <1>1, <1>2, <1>3 DEF Forget, Unwritten, RuntimeInv, BookOwed
<1>4. CASE Restart(o)
  <2>1. sessionStart'[o] = None
    BY <1>4 DEF Restart, CallInv, TypeOK, InstanceTypeOK
  <2> QED
    BY <1>2, <2>1 DEF BookOwed
<1>5. CASE Return(o)
  <2>1. sessionStart'[o] = BookAfter(o) /\ pc[o] = "return"
    BY <1>5 DEF Return, CallInv, TypeOK, InstanceTypeOK
  <2>2. CASE o \notin applied \/ op[o] \in Stops
    BY <1>1, <1>2, <2>1, <2>2 DEF BookAfter, RuntimeInv, BookOwed
  <2>3. CASE o \in applied /\ op[o] \notin Stops
    <3>1. BookAfter(o) = now
      BY <2>3 DEF BookAfter
    <3> QED
      BY <1>1, <1>2, <2>1, <2>3, <3>1
      DEF RuntimeInv, BookOwed, CallOwed, CallInv, TypeOK, RowTypeOK, ClockTypeOK
  <2> QED
    BY <2>2, <2>3
<1> QED
  BY <1>3, <1>4, <1>5
\* Steps of the only operator account for its runtime.
LEMMA OperatorKeepsRuntime ==
    ASSUME NEW o \in Operators, CallInv, RuntimeInv(o), Operate(o) \/ Step(o)
    PROVE  RuntimeInv(o)'
<1>1. o \in Sessions /\ o \notin Reconcilers
  BY SessionsAssumption DEF Sessions
<1>2. ReconcilersKeepNoBook'
  BY <1>1, InstancesAreLocal DEF CallInv, RuntimeInv, ReconcilersKeepNoBook, Sessions
<1>3. CASE Operate(o) \/ ResumeGuard(o) \/ Report(o)
  <2>1. UNCHANGED <<consumed, ran>>
    BY <1>3 DEF Operate, RequestStart, RequestStop, RequestResume, ResumeGuard, Report,
                Unwritten, rowVars, clockVars
  <2> QED
    BY <1>1, <1>2, <1>3, <2>1, RequestsOwe DEF RuntimeInv
<1>4. CASE Update(o)
  BY <1>1, <1>2, <1>4, UpdateOwes DEF RuntimeInv
<1>5. CASE Return(o) \/ Forget(o) \/ Restart(o)
  <2>1. UNCHANGED <<consumed, ran>>
    BY <1>5 DEF Return, Forget, Restart, Unwritten, rowVars, clockVars
  <2> QED
    BY <1>1, <1>2, <1>5, <2>1, EndsOwe DEF RuntimeInv
<1> QED
  BY <1>3, <1>4, <1>5 DEF Step

\* A reconciler's own calls: it asks for completion only, with an empty book.
LEMMA ReconcilerKeepsNoBook ==
    ASSUME CallInv, ReconcilersKeepNoBook, NEW s \in Reconcilers,
           CheckAndComplete(s) \/ Step(s)
    PROVE  /\ sessionStart'[s] = None
           /\ pc'[s] # "guard"
           /\ pc'[s] \in {"update", "return"} => op'[s] = "complete" /\ delta'[s] = 0
<1>1. s \in Sessions
  BY DEF Sessions
<1>2. /\ sessionStart[s] = None /\ pc[s] # "guard" /\ PeekSessionDelta(s) = 0
      /\ pc[s] \in {"update", "return"} => op[s] = "complete" /\ delta[s] = 0
  BY DEF ReconcilersKeepNoBook, PeekSessionDelta
<1>3. CASE CheckAndComplete(s)
  BY <1>1, <1>2, <1>3 DEF CheckAndComplete, Unwritten, CallInv, TypeOK, InstanceTypeOK
<1>4. CASE Report(s)
  BY <1>1, <1>2, <1>4 DEF Report, Submit, Finish, Unwritten, CallInv, TypeOK, InstanceTypeOK
<1>5. CASE Update(s)
  BY <1>1, <1>2, <1>5 DEF Update, callVars, CallInv, TypeOK, InstanceTypeOK
<1>6. CASE Return(s)
  <2>1. pc[s] = "return" /\ op[s] = "complete"
    BY <1>2, <1>6 DEF Return
  <2>2. BookAfter(s) = None
    BY <1>2, <2>1 DEF BookAfter, Stops
  <2> QED
    BY <1>1, <1>6, <2>2 DEF Return, Finish, CallInv, TypeOK, InstanceTypeOK
<1>7. CASE Forget(s) \/ Restart(s)
  BY <1>1, <1>2, <1>7 DEF Forget, Restart, Finish, Unwritten, CallInv, TypeOK, InstanceTypeOK
<1> QED
  BY <1>2, <1>3, <1>4, <1>5, <1>6, <1>7 DEF Step, ResumeGuard

\* Steps of the reconcilers leave the operator's runtime alone.
LEMMA ReconcilerKeepsRuntime ==
    ASSUME NEW o \in Operators, CallInv, RuntimeInv(o), NEW s \in Reconcilers,
           CheckAndComplete(s) \/ Step(s)
    PROVE  RuntimeInv(o)'
<1>1. s \in Sessions /\ o \in Sessions /\ o # s
  BY SessionsAssumption DEF Sessions
<1>2. ReconcilersKeepNoBook'
  <2>1. \A t \in Reconcilers \ {s} : /\ sessionStart'[t] = None /\ pc'[t] # "guard"
                                     /\ pc'[t] \in {"update", "return"}
                                           => op'[t] = "complete" /\ delta'[t] = 0
    BY <1>1, InstancesAreLocal DEF CallInv, RuntimeInv, ReconcilersKeepNoBook, Sessions
  <2> QED
    BY <2>1, ReconcilerKeepsNoBook DEF RuntimeInv, ReconcilersKeepNoBook
<1>3. /\ pc'[o] = pc[o] /\ op'[o] = op[o] /\ delta'[o] = delta[o]
      /\ sessionStart'[o] = sessionStart[o] /\ (o \in applied' <=> o \in applied)
  BY <1>1, InstancesAreLocal DEF CallInv
<1>4. UNCHANGED <<now, ran>>
  BY DEF CheckAndComplete, Step, ResumeGuard, Report, Update, Return, Forget, Restart,
         Unwritten, clockVars
<1>5. UNCHANGED <<status, consumed>> \/ (consumed' = consumed /\ status' = "COMPLETED")
  <2>1. CASE Update(s)
    <3>1. op[s] = "complete" /\ delta[s] = 0
      BY <2>1 DEF Update, RuntimeInv, ReconcilersKeepNoBook
    <3>2. WriteRow(s) => consumed' = consumed /\ status' = "COMPLETED"
      BY <1>1, <3>1 DEF WriteRow, Target, CallInv, TypeOK, RowTypeOK
    <3> QED
      BY <2>1, <3>2 DEF Update, rowVars
  <2>2. CASE ~Update(s)
    BY <2>2 DEF CheckAndComplete, Step, ResumeGuard, Report, Return, Forget, Restart,
                Unwritten, rowVars
  <2> QED
    BY <2>1, <2>2
<1> QED
  BY <1>2, <1>3, <1>4, <1>5 DEF RuntimeInv, BookOwed, CallOwed

\* Time that passes is owed by the session that measures it.
LEMMA TickKeepsRuntime ==
    ASSUME NEW o \in Operators, CallInv, RuntimeInv(o), Tick
    PROVE  RuntimeInv(o)'
<1>1. UNCHANGED <<status, consumed, sessionStart, pc, op, delta, applied>>
  BY DEF Tick, rowVars, callVars
<1>2. /\ now' = now + 1
      /\ status = "RUNNING" => ran' = ran + 1
      /\ ran <= ran'
      /\ now \in Nat /\ ran \in Nat /\ ran' \in Nat /\ consumed \in Nat
  BY DEF Tick, CallInv, TypeOK, RowTypeOK, ClockTypeOK
<1>3. ReconcilersKeepNoBook'
  BY <1>1 DEF RuntimeInv, ReconcilersKeepNoBook
<1>4. o \in Sessions /\ sessionStart[o] \in Nat \cup {None} /\ delta[o] \in Nat
  BY DEF CallInv, TypeOK, InstanceTypeOK, Sessions
<1>5. consumed' <= ran' /\ CallOwed(o)'
  BY <1>1, <1>2, <1>4 DEF RuntimeInv, CallOwed
<1>6. BookOwed(o)'
  BY <1>1, <1>2, <1>4 DEF RuntimeInv, BookOwed
<1> QED
  BY <1>3, <1>5, <1>6 DEF RuntimeInv

\* With one operator, whatever the reconcilers complete and whenever processes
\* die, the runtime on the row never exceeds the time the batch was RUNNING.
THEOREM RuntimeNeverInflated == Spec => []RuntimeIsLowerBound
<1> DEFINE Inv == \A o \in Operators : SoleOperator(o) => RuntimeInv(o)
<1>1. Init => Inv
  BY DEF Init, RuntimeInv, ReconcilersKeepNoBook, BookOwed, CallOwed, Sessions
<1>2. CallInv /\ Inv /\ [Next]_vars => Inv'
  <2> SUFFICES ASSUME CallInv, Inv, [Next]_vars, NEW o \in Operators, SoleOperator(o)'
               PROVE  RuntimeInv(o)'
    OBVIOUS
  <2>1. SoleOperator(o) /\ RuntimeInv(o)
    BY DEF Next, vars, SoleOperator
  <2>2. CASE UNCHANGED vars
    BY <2>1, <2>2 DEF vars, rowVars, callVars, clockVars, RuntimeInv, ReconcilersKeepNoBook,
                      BookOwed, CallOwed
  <2>3. ASSUME NEW s \in Operators \cap scenario.active, Operate(s) PROVE RuntimeInv(o)'
    BY <2>1, <2>3, OperatorKeepsRuntime DEF SoleOperator
  <2>4. ASSUME NEW s \in scenario.active, s \in Sessions, Step(s) PROVE RuntimeInv(o)'
    BY <2>1, <2>4, OperatorKeepsRuntime, ReconcilerKeepsRuntime DEF SoleOperator, Sessions
  <2> QED
    BY <2>1, <2>2, <2>3, <2>4, ReconcilerKeepsRuntime, TickKeepsRuntime, NextSteps DEF CallInv
<1>3. Inv => RuntimeIsLowerBound
  BY DEF RuntimeInv, RuntimeIsLowerBound
<1> QED
  BY <1>1, <1>2, <1>3, CallInvHolds, PTL DEF Spec
-----------------------------------------------------------------------------
\* A batch with one live operator o: what it ran and the row lacks is in o's book
\* while it runs, and in o's call while that is about to stop it, but for what
\* passed during calls.
Landed(o) == pc[o] = "return" /\ o \in applied

BookHas(o) ==
    /\ status # "RUNNING" \/ Landed(o) => ran <= consumed + ranInCalls
    /\ status = "RUNNING" /\ ~Landed(o) =>
          sessionStart[o] # None /\ ran <= consumed + ranInCalls + (now - sessionStart[o])
    /\ status = "RUNNING" /\ pc[o] = "update" /\ op[o] \in Stops =>
          ran <= consumed + ranInCalls + delta[o]
    /\ Landed(o) /\ op[o] \in Stops => status # "RUNNING"

OnlyLiving(o) == scenario.active = {o} /\ scenario.deaths = 0

\* The numbers of the book.
LEMMA BookTyped ==
    ASSUME CallInv, NEW o \in Sessions
    PROVE  /\ {now, ran, ranInCalls, consumed, delta[o], PeekSessionDelta(o)} \subseteq Nat
           /\ sessionStart[o] # None =>
                sessionStart[o] \in Nat /\ PeekSessionDelta(o) = now - sessionStart[o]
BY GetTyped DEF CallInv, TypeOK, RowTypeOK, InstanceTypeOK, ClockTypeOK, PeekSessionDelta

\* A call takes the whole of the book with it.
LEMMA RequestsAccount ==
    ASSUME CallInv, NEW o \in Sessions, BookHas(o),
           Operate(o) \/ ResumeGuard(o) \/ Report(o)
    PROVE  BookHas(o)'
<1>1. /\ UNCHANGED <<status, consumed, ran, ranInCalls, now, sessionStart>>
      /\ pc[o] # "return" /\ pc'[o] # "return"
  BY DEF Operate, RequestStart, RequestStop, RequestResume, ResumeGuard, Report, Unwritten,
         rowVars, clockVars, Submit, Finish, CallInv, TypeOK, InstanceTypeOK
<1>2. pc'[o] = "update" /\ op'[o] \in Stops => delta'[o] = PeekSessionDelta(o)
  <2>1. CASE RequestStart(o)
    BY <2>1 DEF RequestStart, Submit, Stops, CallInv, TypeOK, InstanceTypeOK
  <2>2. CASE RequestStop(o)
    BY <2>2 DEF RequestStop, Submit, Stops, CallInv, TypeOK, InstanceTypeOK
  <2>3. CASE RequestResume(o)
    BY <2>3 DEF RequestResume, CallInv, TypeOK, InstanceTypeOK
  <2>4. CASE ResumeGuard(o)
    BY <2>4 DEF ResumeGuard, Submit, Finish, Stops, CallInv, TypeOK, InstanceTypeOK
  <2>5. CASE Report(o)
    BY <2>5 DEF Report, Submit, Finish, Stops, CallInv, TypeOK, InstanceTypeOK
  <2> QED
    BY <2>1, <2>2, <2>3, <2>4, <2>5 DEF Operate
<1>3. status = "RUNNING" => ran <= consumed + ranInCalls + PeekSessionDelta(o)
  BY <1>1, BookTyped DEF BookHas, Landed
<1> QED
  BY <1>1, <1>2, <1>3 DEF BookHas, Landed

\* An UPDATE that stops the batch moves what the call took to the row.
LEMMA UpdateAccounts ==
    ASSUME CallInv, NEW o \in Sessions, BookHas(o), Update(o)
    PROVE  BookHas(o)'
<1>1. /\ UNCHANGED <<ran, ranInCalls, now, sessionStart, op, delta>>
      /\ pc'[o] = "return" /\ pc[o] = "update"
  BY DEF Update, callVars, clockVars, CallInv, TypeOK, InstanceTypeOK
<1>2. CASE ~Matches(o) /\ UNCHANGED rowVars
  <2>1. o \notin applied'
    BY <1>2 DEF Update
  <2> QED
    BY <1>1, <1>2, <2>1 DEF rowVars, BookHas, Landed
<1>3. CASE Matches(o) /\ WriteRow(o)
  <2>1. /\ consumed' = consumed + delta[o] /\ applied' = applied \cup {o}
        /\ status' = Target[op[o]] /\ op[o] \in Ops
    BY <1>3 DEF WriteRow, CallInv, TypeOK, InstanceTypeOK
  <2>2. op[o] \in Stops => status' # "RUNNING"
    BY <2>1 DEF Target, Stops
  <2>3. status = "RUNNING" => op[o] \in Stops
    BY <1>3, <2>1 DEF Matches, Expected, Ops, Stops
  <2>4. ran <= consumed + ranInCalls + delta[o]
    <3>1. CASE status = "RUNNING"
      BY <1>1, <2>3, <3>1 DEF BookHas
    <3>2. CASE status # "RUNNING"
      BY <3>2, BookTyped DEF BookHas
    <3> QED
      BY <3>1, <3>2
  <2>5. ran <= consumed' + ranInCalls
    BY <2>1, <2>4, BookTyped
  <2> QED
    BY <1>1, <2>1, <2>2, <2>5 DEF BookHas, Landed
<1> QED
  BY <1>2, <1>3 DEF Update

\* What a start or resume opens a book for has not run before the book.
LEMMA EndsAccount ==
    ASSUME CallInv, NEW o \in Sessions, BookHas(o), Return(o) \/ Forget(o)
    PROVE  BookHas(o)'
<1>1. /\ UNCHANGED <<status, consumed, ran, ranInCalls, now>> /\ pc'[o] = "idle"
  BY DEF Return, Forget, Finish, Unwritten, rowVars, clockVars, CallInv, TypeOK, InstanceTypeOK
<1>2. CASE Forget(o)
  BY <1>1, <1>2 DEF Forget, Unwritten, NoResult, BookHas, Landed
<1>3. CASE Return(o)
  <2>1. sessionStart'[o] = BookAfter(o) /\ pc[o] = "return"
    BY <1>3 DEF Return, CallInv, TypeOK, InstanceTypeOK
  <2>2. CASE ~Landed(o)
    BY <1>1, <2>1, <2>2 DEF BookAfter, BookHas, Landed
  <2>3. CASE Landed(o)
    <3>1. CASE op[o] \in Stops
      BY <1>1, <2>3, <3>1 DEF BookHas, Landed
    <3>2. CASE op[o] \notin Stops
      <4>1. sessionStart'[o] = now /\ ran <= consumed + ranInCalls
        BY <2>1, <2>3, <3>2 DEF BookAfter, BookHas, Landed
      <4>2. now # None /\ ran <= consumed + ranInCalls + (now - now)
        BY <4>1, BookTyped, NoneAssumption
      <4> QED
        BY <1>1, <4>1, <4>2 DEF BookHas, Landed
    <3> QED
      BY <3>1, <3>2
  <2> QED
    BY <2>2, <2>3
<1> QED
  BY <1>2, <1>3

\* Time that passes is in the book, or during a call.
LEMMA TickAccounts ==
    ASSUME CallInv, NEW o \in Sessions, BookHas(o), Tick
    PROVE  BookHas(o)'
<1>1. /\ UNCHANGED <<status, consumed, sessionStart, pc, op, delta, applied>>
      /\ now' = now + 1
      /\ status = "RUNNING" => ran' = ran + 1
      /\ status # "RUNNING" => ran' = ran /\ ranInCalls' = ranInCalls
      /\ status = "RUNNING" /\ pc[o] # "idle" => ranInCalls' = ranInCalls + 1
      /\ ranInCalls' \in {ranInCalls, ranInCalls + 1}
  BY DEF Tick, rowVars, callVars
<1>2. CASE status # "RUNNING"
  BY <1>1, <1>2 DEF BookHas, Landed
<1>3. CASE status = "RUNNING" /\ pc[o] # "idle"
  <2>1. ran' = ran + 1 /\ ranInCalls' = ranInCalls + 1
    BY <1>1, <1>3
  <2>2. Landed(o) => ran' <= consumed + ranInCalls'
    BY <2>1, BookTyped DEF BookHas
  <2>3. ~Landed(o) => sessionStart[o] # None /\ ran' <= consumed + ranInCalls' + (now' - sessionStart[o])
    <3>1. SUFFICES ASSUME ~Landed(o)
                   PROVE  sessionStart[o] # None
                          /\ ran' <= consumed + ranInCalls' + (now' - sessionStart[o])
      OBVIOUS
    <3>2. sessionStart[o] # None /\ ran <= consumed + ranInCalls + (now - sessionStart[o])
      BY <1>3, <3>1 DEF BookHas
    <3> QED
      BY <1>1, <2>1, <3>2, BookTyped
  <2>4. pc[o] = "update" /\ op[o] \in Stops => ran' <= consumed + ranInCalls' + delta[o]
    BY <1>3, <2>1, BookTyped DEF BookHas
  <2> QED
    BY <1>1, <1>3, <2>2, <2>3, <2>4 DEF BookHas, Landed
<1>4. CASE status = "RUNNING" /\ pc[o] = "idle"
  <2>1. sessionStart[o] # None /\ ran <= consumed + ranInCalls + (now - sessionStart[o])
    BY <1>4 DEF BookHas, Landed
  <2>2. ran' <= consumed + ranInCalls' + (now' - sessionStart[o])
    BY <1>1, <1>4, <2>1, BookTyped
  <2> QED
    BY <1>1, <1>4, <2>1, <2>2 DEF BookHas, Landed
<1> QED
  BY <1>2, <1>3, <1>4

\* A batch stopped by the operator who started it, whose process lives on, has all its
\* running time on the row, but for what passed while a call was in progress.
THEOREM RuntimeIsKept == Spec => []RuntimeAccounted
<1> DEFINE Inv == \A o \in Operators : OnlyLiving(o) => BookHas(o)
<1>1. Init => Inv
  BY DEF Init, BookHas, Landed
<1>2. CallInv /\ Inv /\ [Next]_vars => Inv'
  <2> SUFFICES ASSUME CallInv, Inv, [Next]_vars, NEW o \in Operators, OnlyLiving(o)'
               PROVE  BookHas(o)'
    OBVIOUS
  <2>1. OnlyLiving(o) /\ BookHas(o) /\ o \in Sessions /\ o \notin Reconcilers
    BY SessionsAssumption DEF Next, vars, OnlyLiving, Sessions
  <2>2. CASE UNCHANGED vars
    BY <2>1, <2>2 DEF vars, rowVars, callVars, clockVars, BookHas, Landed
  <2>3. CASE Tick
    BY <2>1, <2>3, TickAccounts
  <2>4. CASE \E s \in Operators \cap scenario.active : Operate(s)
    BY <2>1, <2>4, RequestsAccount DEF OnlyLiving
  <2>5. CASE \E s \in scenario.active : Step(s)
    <3>1. Step(o)
      BY <2>1, <2>5 DEF OnlyLiving
    <3>2. ~Restart(o)
      BY <2>1 DEF Restart, OnlyLiving, CallInv, TypeOK, ClockTypeOK
    <3> QED
      BY <2>1, <3>1, <3>2, RequestsAccount, UpdateAccounts, EndsAccount DEF Step
  <2>6. CASE \E s \in Reconcilers \cap scenario.active : CheckAndComplete(s)
    BY <2>1, <2>6 DEF OnlyLiving
  <2> QED
    BY <2>2, <2>3, <2>4, <2>5, <2>6 DEF Next
<1>3. CallInv /\ Inv => RuntimeAccounted
  <2> SUFFICES ASSUME CallInv, Inv, NEW o \in Operators, OnlyLiving(o),
                      status \notin {"PLANNED", "RUNNING"}
               PROVE  ran <= consumed + ranInCalls
    BY DEF RuntimeAccounted, OnlyLiving
  <2> QED
    BY DEF BookHas
<1> QED
  BY <1>1, <1>2, <1>3, CallInvHolds, PTL DEF Spec
-----------------------------------------------------------------------------
(* The guard that a session consults.                                      *)

\* The count is the length of the longest tail of failed probes, and the last
\* result of an embedding check was made from it.
CountIsTail ==
    /\ probes \in Seq(BOOLEAN)
    /\ failures \in 0..Len(probes)
    /\ \A i \in Len(probes) - failures + 1 .. Len(probes) : ~probes[i]
    /\ failures < Len(probes) => probes[Len(probes) - failures]
    /\ result.kind = "EMBEDDING" => result.tier = CheckOllama(failures).tier

LEMMA CountIsRight == GuardSpec => []CountIsTail
<1>1. GuardInit => CountIsTail
  BY DEF GuardInit, CountIsTail, NoCheck
<1>2. CountIsTail /\ [GuardNext]_guardVars => CountIsTail'
  <2> SUFFICES ASSUME CountIsTail, [GuardNext]_guardVars PROVE CountIsTail'
    OBVIOUS
  <2> USE DEF CountIsTail
  <2>1. CASE DisksChange
    BY <2>1 DEF DisksChange, NoCheck
  <2>2. CASE CheckBeforeClaim
    BY <2>2 DEF CheckBeforeClaim, Result
  <2>3. CASE CheckBeforeExtraction
    BY <2>3 DEF CheckBeforeExtraction, Result
  <2>4. CASE CheckBeforeEmbedding
    <3>1. PICK r \in BOOLEAN :
            /\ failures' = FailuresAfter(r)
            /\ probes' = Append(probes, r)
            /\ result' = Result("EMBEDDING", CheckOllama(FailuresAfter(r)))
      BY <2>4 DEF CheckBeforeEmbedding
    <3>2. /\ Len(probes') = Len(probes) + 1
          /\ \A i \in 1..Len(probes) : probes'[i] = probes[i]
          /\ probes'[Len(probes')] = r /\ probes' \in Seq(BOOLEAN)
      BY <3>1
    <3>3. result'.tier = CheckOllama(failures').tier
      BY <3>1 DEF Result
    <3>4. CASE r
      <4>1. failures' = 0
        BY <3>1, <3>4 DEF FailuresAfter
      <4>2. probes'[Len(probes') - failures']
        <5>1. Len(probes') - failures' = Len(probes')
          BY <3>2, <4>1
        <5>2. probes'[Len(probes')]
          BY <3>2, <3>4, Zenon
        <5>. QED
          BY <5>1, <5>2, Zenon
      <4>3. \A i \in Len(probes') - failures' + 1 .. Len(probes') : ~probes'[i]
        BY <3>2, <4>1
      <4>. QED
        BY <3>2, <3>3, <4>1, <4>2, <4>3
    <3>5. CASE ~r
      <4>1. failures' = failures + 1
        BY <3>1, <3>5 DEF FailuresAfter
      <4>. QED
        <5>1. failures' \in 0..Len(probes')
          BY <3>2, <4>1
        <5>2. Len(probes') - failures' = Len(probes) - failures
          BY <3>2, <4>1
        <5>3. ASSUME NEW i \in Len(probes') - failures' + 1 .. Len(probes')
              PROVE  ~probes'[i]
          <6>1. CASE i = Len(probes')
            BY <3>2, <3>5, <6>1, Zenon
          <6>2. CASE i # Len(probes')
            <7>1. i \in Len(probes) - failures + 1 .. Len(probes) /\ i \in 1..Len(probes)
              BY <3>2, <5>2, <6>2
            <7>. QED
              BY <3>2, <7>1, Zenon
          <6>. QED
            BY <6>1, <6>2
        <5>4. failures' < Len(probes') => probes'[Len(probes') - failures']
          <6>1. CASE failures < Len(probes)
            <7>1. Len(probes) - failures \in 1..Len(probes)
              BY <6>1
            <7>. QED
              BY <3>2, <5>2, <6>1, <7>1, Zenon
          <6>2. CASE ~(failures < Len(probes))
            BY <3>2, <4>1, <6>2
          <6>. QED
            BY <6>1, <6>2
        <5>. QED
          BY <3>2, <3>3, <5>1, <5>3, <5>4
    <3>. QED
      BY <3>4, <3>5
  <2>5. CASE RestartProcess
    BY <2>5 DEF RestartProcess, NoCheck
  <2>6. CASE UNCHANGED guardVars
    BY <2>6 DEF guardVars
  <2>. QED
    BY <2>1, <2>2, <2>3, <2>4, <2>5, <2>6 DEF GuardNext
<1>. QED
  BY <1>1, <1>2, PTL DEF GuardSpec

\* Type correctness of the guard.
THEOREM GuardTypeCorrect == GuardSpec => []GuardTypeOK
<1>. DEFINE Probed == probes \in Seq(BOOLEAN) /\ Len(probes) <= MaxProbes
            Typed == /\ workspaceFree \in WorkspaceSamples /\ postgresFree \in PostgresSamples
                     /\ result.kind \in {"NONE", "CLAIM", "ARCHIVE_EXTRACTION", "EMBEDDING"}
                     /\ result.tier \in Tiers
                     /\ Probed
<1>1. GuardInit => Typed
  BY ProbesAssumption DEF GuardInit, NoCheck, Tiers
<1>2. Typed /\ [GuardNext]_guardVars => Typed'
  <2>. SUFFICES ASSUME Typed, [GuardNext]_guardVars PROVE Typed'
    OBVIOUS
  <2>1. CASE DisksChange \/ RestartProcess
    <3>1. << >> \in Seq(BOOLEAN) /\ Len(<< >>) <= MaxProbes
      BY ProbesAssumption
    <3>2. Probed'
      BY <2>1, <3>1 DEF DisksChange, RestartProcess
    <3>. QED
      BY <2>1, <3>2 DEF DisksChange, RestartProcess, NoCheck, Tiers
  <2>2. CASE CheckBeforeClaim \/ CheckBeforeExtraction
    BY <2>2 DEF CheckBeforeClaim, CheckBeforeExtraction, Result, CheckDisk, CheckWorkspaceDisk,
        CheckPostgresDisk, Tier, Tiers
  <2>3. CASE CheckBeforeEmbedding
    <3>1. PICK r \in BOOLEAN :
            /\ probes' = Append(probes, r)
            /\ result' = Result("EMBEDDING", CheckOllama(FailuresAfter(r)))
      BY <2>3 DEF CheckBeforeEmbedding
    <3>2. Probed'
      BY <2>3, <3>1, ProbesAssumption DEF CheckBeforeEmbedding
    <3>3. result'.kind = "EMBEDDING" /\ result'.tier \in Tiers
      BY <3>1 DEF Result, CheckOllama, Normal, Tiers
    <3>. QED
      BY <2>3, <3>2, <3>3 DEF CheckBeforeEmbedding
  <2>4. CASE UNCHANGED guardVars
    BY <2>4 DEF guardVars
  <2>. QED
    BY <2>1, <2>2, <2>3, <2>4 DEF GuardNext
<1>3. Typed /\ CountIsTail => GuardTypeOK
  <2>. SUFFICES ASSUME Typed, CountIsTail PROVE GuardTypeOK
    OBVIOUS
  <2>1. failures \in 0..MaxProbes
    BY ProbesAssumption DEF CountIsTail
  <2>2. probes \in BoundedSeq(BOOLEAN, MaxProbes)
    BY ProbesAssumption DEF BoundedSeq, SeqOf
  <2>. QED
    BY <2>1, <2>2 DEF GuardTypeOK
<1>. QED
  BY <1>1, <1>2, <1>3, CountIsRight, PTL DEF GuardSpec

\* Ollama stops a batch exactly when the last three probes of this process all
\* failed, however disk checks, answers and restarts came between.
THEOREM GuardStops == GuardSpec => []OllamaStopIsPersistent
<1>1. CountIsTail => OllamaStopIsPersistent
  BY DEF CountIsTail, OllamaStopIsPersistent, CheckOllama, OllamaHardStop, Normal
<1>. QED
  BY <1>1, CountIsRight, PTL
=============================================================================
