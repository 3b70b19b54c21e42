---------------------------- MODULE BatchControl ----------------------------
(***************************************************************************)
(* The control plane of one IngestionBatch.  Several BatchControlService   *)
(* instances, each with its database session, start, pause, resume, abort  *)
(* and complete the same row; batches never touch each other's rows, so    *)
(* one row is enough.                                                      *)
(*                                                                         *)
(*   BatchControlService                    RequestX, Update, Return       *)
(*   BatchCompletionReconciliationService   CheckAndComplete, Report       *)
(*                                                                         *)
(* A transition is one conditional UPDATE; before it the instance reads    *)
(* its own clock and, for resume, its own view of the row; after it the    *)
(* instance updates its book of running sessions, which only its memory    *)
(* holds.  Between these steps any other instance may run, time may pass,  *)
(* and the process may die.                                                *)
(*                                                                         *)
(* The view is the object in the session's identity map.  It is not        *)
(* expired by a commit (expire_on_commit=False), so a later get returns it *)
(* as it is; it goes away when the caller drops it.                        *)
(***************************************************************************)
EXTENDS BatchStates, GuardTiers

CONSTANTS
    Operators,     \* instances an operator drives
    Reconcilers,   \* the instance inside each completion reconciler
    None,          \* SQL NULL, or nothing in memory
    Reasons,       \* the reasons callers give
    Scenarios      \* bounds, see ScenariosAssumption

Sessions == Operators \cup Reconcilers

Ops == {"start", "pause", "resume", "abort", "complete"}

ASSUME SessionsAssumption == Operators \cap Reconcilers = {}
ASSUME NoneAssumption == None \notin BatchStatus \cup StopReasons \cup Int \cup Ops
ASSUME ReasonsAssumption == Reasons \subseteq StopReasons
\* A scenario names the instances in use, and bounds the ticks of the monotonic
\* clock and the deaths of processes.
ASSUME ScenariosAssumption ==
    Scenarios \subseteq [active : SUBSET Sessions, ticks : Nat, deaths : Nat]

VARIABLES
    \* ingestion_batches
    status, stopReason,
    consumed,        \* monotonic_runtime_seconds_consumed
    stamps,          \* which of started_at, completed_at are set
    \* each instance
    sessionStart,    \* _session_starts[batch_id]
    view,            \* status of the cached IngestionBatch
    pc, op, reason,  \* the call in progress: its step, what it asks for, and why
    delta,           \* the runtime it peeked
    applied,         \* whether its UPDATE matched the row
    \* the monotonic clock, process deaths
    now, restarts,
    \* history: time the batch was RUNNING, in all and while a call was in
    \* progress; stops by others since a call began, unless undone by a resume
    ran, ranInCalls, stopsSince,
    \* the scenario this behaviour belongs to
    scenario

rowVars == <<status, stopReason, consumed, stamps>>
callVars == <<op, reason, delta>>
clockVars == <<now, ran, ranInCalls>>
vars == <<rowVars, sessionStart, view, pc, callVars, applied, clockVars,
          restarts, stopsSince, scenario>>

Steps == {"idle", "guard", "report", "update", "return"}

RowTypeOK ==
    /\ status \in BatchStatus
    /\ stopReason \in StopReasons \cup {None}
    /\ consumed \in Nat
    /\ stamps \subseteq {"started_at", "completed_at"}

InstanceTypeOK ==
    /\ sessionStart \in [Sessions -> Nat \cup {None}]
    /\ view \in [Sessions -> BatchStatus \cup {None}]
    /\ pc \in [Sessions -> Steps]
    /\ op \in [Sessions -> Ops]
    /\ reason \in [Sessions -> StopReasons \cup {None}]
    /\ delta \in [Sessions -> Nat]
    /\ applied \subseteq Sessions

ClockTypeOK ==
    /\ now \in Nat
    /\ restarts \in Nat
    /\ ran \in Nat
    /\ ranInCalls \in Nat
    /\ stopsSince \in [Sessions -> SUBSET Ops]
    /\ \A s \in Sessions : sessionStart[s] # None => sessionStart[s] <= now

TypeOK == RowTypeOK /\ InstanceTypeOK /\ ClockTypeOK /\ scenario \in Scenarios

Init ==
    /\ status = "PLANNED"
    /\ stopReason = None
    /\ consumed = 0
    /\ stamps = {}
    /\ sessionStart = [s \in Sessions |-> None]
    /\ view = [s \in Sessions |-> None]
    /\ pc = [s \in Sessions |-> "idle"]
    /\ op = [s \in Sessions |-> "start"]
    /\ reason = [s \in Sessions |-> None]
    /\ delta = [s \in Sessions |-> 0]
    /\ applied = {}
    /\ now = 0
    /\ restarts = 0
    /\ ran = 0
    /\ ranInCalls = 0
    /\ stopsSince = [s \in Sessions |-> {}]
    /\ scenario \in Scenarios
-----------------------------------------------------------------------------
\* db.get: the cached object as it is, or a read of the row.
Get(s) == IF view[s] # None THEN view[s] ELSE status

\* Time since this instance's own start or resume; 0.0 if it never saw one.
PeekSessionDelta(s) == IF sessionStart[s] = None THEN 0 ELSE now - sessionStart[s]

\* Mutant: any stop is accepted while the batch is active.
ExpectedActive(o, r) ==
    IF o = "start" THEN {"PLANNED"}
    ELSE IF o = "resume" THEN {"PAUSED"} ELSE {"RUNNING", "PAUSED"}

\* The statuses from which each operation is accepted.
Expected(o, r) ==
    IF o = "start" THEN {"PLANNED"}
    ELSE IF o = "resume" THEN {"PAUSED"}
    ELSE IF o = "abort" THEN AbortLegalSources(r) ELSE {"RUNNING"}

Target == [start |-> "RUNNING", resume |-> "RUNNING", pause |-> "PAUSED",
           complete |-> "COMPLETED", abort |-> "ABORTED"]

Stops == {"pause", "complete", "abort"}

\* A call reaches its UPDATE with what it has read so far.
Submit(s, o, r, d) ==
    /\ pc' = [pc EXCEPT ![s] = "update"]
    /\ op' = [op EXCEPT ![s] = o]
    /\ reason' = [reason EXCEPT ![s] = r]
    /\ delta' = [delta EXCEPT ![s] = d]

\* A call is over: its locals are gone.
Finish(s) ==
    /\ pc' = [pc EXCEPT ![s] = "idle"]
    /\ op' = [op EXCEPT ![s] = "start"]
    /\ reason' = [reason EXCEPT ![s] = None]
    /\ delta' = [delta EXCEPT ![s] = 0]
    /\ applied' = applied \ {s}
    /\ stopsSince' = [stopsSince EXCEPT ![s] = {}]

\* The rest of a call before its UPDATE.
Unwritten == UNCHANGED <<rowVars, sessionStart, clockVars, restarts>>

NoResult == UNCHANGED <<applied, stopsSince>>

RequestStart(s) ==
    /\ pc[s] = "idle"
    /\ Submit(s, "start", None, 0)
    /\ UNCHANGED view /\ NoResult /\ Unwritten

\* pause, abort and complete refuse, with ValueError, a reason of another kind.
RequestStop(s) ==
    /\ pc[s] = "idle"
    /\ \E r \in Reasons :
        \/ r \in PauseReasons /\ Submit(s, "pause", r, PeekSessionDelta(s))
        \/ r \in AbortReasons /\ Submit(s, "abort", r, PeekSessionDelta(s))
        \/ r \in CompleteReasons /\ Submit(s, "complete", r, PeekSessionDelta(s))
    /\ UNCHANGED view /\ NoResult /\ Unwritten

\* resume looks at its own view first, and answers at once unless it is PAUSED.
RequestResume(s) ==
    /\ pc[s] = "idle"
    /\ view' = [view EXCEPT ![s] = Get(s)]
    /\ pc' = [pc EXCEPT ![s] = IF Get(s) = "PAUSED" THEN "guard" ELSE "idle"]
    /\ UNCHANGED callVars /\ NoResult /\ Unwritten

\* Then it checks the disks: a hard stop aborts, a soft one leaves the batch.
ResumeGuard(s) ==
    /\ pc[s] = "guard"
    /\ \E verdict \in DiskVerdicts :
        \/ /\ verdict.tier = "HARD_STOP"
           /\ Submit(s, "abort", verdict.reason, PeekSessionDelta(s)) /\ NoResult
        \/ verdict.tier = "SOFT_STOP" /\ Finish(s)
        \/ verdict.tier = "NORMAL" /\ Submit(s, "resume", None, 0) /\ NoResult
    /\ UNCHANGED view /\ Unwritten

\* check_and_complete reads the batch and goes on only if it looks RUNNING.
CheckAndComplete(s) ==
    /\ s \in Reconcilers
    /\ pc[s] = "idle"
    /\ view' = [view EXCEPT ![s] = Get(s)]
    /\ pc' = [pc EXCEPT ![s] = IF Get(s) = "RUNNING" THEN "report" ELSE "idle"]
    /\ UNCHANGED callVars /\ NoResult /\ Unwritten

\* The report says whether the batch's source work is exhausted.
Report(s) ==
    /\ pc[s] = "report"
    /\ \/ Submit(s, "complete", "SOURCE_WORK_EXHAUSTED", PeekSessionDelta(s)) /\ NoResult
       \/ Finish(s)
    /\ UNCHANGED view /\ Unwritten
-----------------------------------------------------------------------------
\* Mutant: the UPDATE names the row only.
MatchesById(s) == TRUE

\* WHERE id = :id AND status IN (:expected), evaluated when the row lock is had.
Matches(s) == status \in Expected(op[s], reason[s])

\* The stop reason stored with the new status; RUNNING clears it.
NewReason(s) == IF Target[op[s]] = "RUNNING" THEN None ELSE reason[s]

\* The ORM applies the new values to the cached object when the object itself
\* passes the WHERE clause, matched row or not; a version that goes by the rows
\* returned updates the object exactly when the row was matched.
ViewsAfterUpdate(s) ==
    LET passes == view[s] \in Expected(op[s], reason[s])
    IN  IF view[s] # None /\ passes = Matches(s)
        THEN {IF passes THEN Target[op[s]] ELSE view[s]}
        ELSE IF view[s] # None THEN {view[s], Target[op[s]]} ELSE {None}

StampsAfter(s) ==
    stamps \cup (IF op[s] = "start" THEN {"started_at"} ELSE {})
           \cup (IF op[s] \in {"abort", "complete"} THEN {"completed_at"} ELSE {})

WriteRow(s) ==
    /\ status' = Target[op[s]]
    /\ stopReason' = NewReason(s)
    /\ consumed' = consumed + delta[s]
    /\ stamps' = StampsAfter(s)
    /\ applied' = applied \cup {s}
    /\ stopsSince' = [t \in Sessions |->
            IF op[s] = "resume" THEN {}
            ELSE IF op[s] \in Stops /\ t # s /\ pc[t] # "idle"
            THEN stopsSince[t] \cup {op[s]} ELSE stopsSince[t]]

\* _apply: the conditional UPDATE and its commit.
Update(s) ==
    /\ pc[s] = "update"
    /\ \/ Matches(s) /\ WriteRow(s)
       \/ ~Matches(s) /\ applied' = applied \ {s} /\ UNCHANGED <<rowVars, stopsSince>>
    /\ pc' = [pc EXCEPT ![s] = "return"]
    /\ \E v \in ViewsAfterUpdate(s) : view' = [view EXCEPT ![s] = v]
    /\ UNCHANGED <<sessionStart, callVars, clockVars, restarts>>

\* Mutants: the book is closed by an attempt that was not applied; a stop leaves
\* it open.
BookClosedByAttempt(s) ==
    IF op[s] \in Stops THEN None ELSE IF s \in applied THEN now ELSE sessionStart[s]

BookLeftOpen(s) == IF s \in applied /\ op[s] \notin Stops THEN now ELSE sessionStart[s]

\* The book of sessions after the call: opened by start and resume, closed by
\* the others, and only if the call was applied.
BookAfter(s) ==
    IF s \notin applied THEN sessionStart[s]
    ELSE IF op[s] \in Stops THEN None ELSE now

\* The get that fills TransitionResult.batch, and the bookkeeping.
Return(s) ==
    /\ pc[s] = "return"
    /\ view' = [view EXCEPT ![s] = Get(s)]
    /\ sessionStart' = [sessionStart EXCEPT ![s] = BookAfter(s)]
    /\ Finish(s)
    /\ UNCHANGED <<rowVars, clockVars, restarts>>
-----------------------------------------------------------------------------
\* The caller drops the last TransitionResult: the identity map holds objects
\* weakly, so the next get reads the row.
Forget(s) ==
    /\ pc[s] = "idle" /\ view[s] # None
    /\ view' = [view EXCEPT ![s] = None]
    /\ UNCHANGED <<pc, callVars>> /\ NoResult /\ Unwritten

\* The process dies; its successor has a new instance and a new session.
Restart(s) ==
    /\ restarts < scenario.deaths
    /\ restarts' = restarts + 1
    /\ Finish(s)
    /\ view' = [view EXCEPT ![s] = None]
    /\ sessionStart' = [sessionStart EXCEPT ![s] = None]
    /\ UNCHANGED <<rowVars, clockVars>>

Tick ==
    /\ now < scenario.ticks
    /\ now' = now + 1
    /\ ran' = IF status = "RUNNING" THEN ran + 1 ELSE ran
    /\ ranInCalls' = IF status = "RUNNING" /\ \E s \in Sessions : pc[s] # "idle"
                     THEN ranInCalls + 1 ELSE ranInCalls
    /\ UNCHANGED <<rowVars, sessionStart, view, pc, callVars, applied,
                   restarts, stopsSince>>

Operate(s) == RequestStart(s) \/ RequestStop(s) \/ RequestResume(s)

Step(s) == ResumeGuard(s) \/ Report(s) \/ Update(s) \/ Return(s) \/ Forget(s) \/ Restart(s)

Next ==
    /\ \/ \E s \in Operators \cap scenario.active : Operate(s)
       \/ \E s \in Reconcilers \cap scenario.active : CheckAndComplete(s)
       \/ \E s \in scenario.active : Step(s)
       \/ Tick
    /\ UNCHANGED scenario

Spec == Init /\ [][Next]_vars
-----------------------------------------------------------------------------
\* However the calls interleave, the row moves only along the six edges of the
\* batch state machine, and always with a reason of the right kind.
Life == INSTANCE BatchLife WITH status <- status, stopReason <- stopReason, None <- None

FollowsLife == Life!Spec

\* The stop reason belongs to the status, and a timestamp is set exactly when
\* the status says that the batch was started, or has ended (_apply writes them
\* together); proved, not run.
RowConsistent ==
    /\ status \in {"PLANNED", "RUNNING"} <=> stopReason = None
    /\ status = "PAUSED" => stopReason \in PauseReasons
    /\ status = "COMPLETED" => stopReason \in CompleteReasons
    /\ status = "ABORTED" => stopReason \in AbortReasons
    /\ "started_at" \in stamps <=> status # "PLANNED"
    /\ "completed_at" \in stamps <=> status \in BatchFinal

\* A call that needs a RUNNING batch is not applied once another call, begun
\* meanwhile or before, has stopped the batch and nothing has resumed it.
StopWins ==
    [][\A s \in Sessions :
        (pc[s] = "update" /\ pc'[s] = "return" /\ s \in applied' /\ op[s] \in {"pause", "complete"})
            => stopsSince[s] = {}]_vars

SoleOperator(o) == Operators \cap scenario.active \subseteq {o}

\* With one operator, the runtime on the row is never more than the time the
\* batch was RUNNING, whatever the reconcilers do and whenever processes die.
RuntimeIsLowerBound == (\E o \in Operators : SoleOperator(o)) => consumed <= ran

\* A batch stopped by the operator who started it, whose process lives on, has
\* all its running time on the row, but for what passed while a call was in
\* progress; calls that were refused do not matter.
RuntimeAccounted ==
    /\ \E o \in Operators : scenario.active = {o}
    /\ scenario.deaths = 0
    /\ status \notin {"PLANNED", "RUNNING"}
    => ran <= consumed + ranInCalls
=============================================================================
