------------------------ MODULE DedupExecutionProofs ------------------------
(***************************************************************************)
(* Theorems about DedupExecution, for every set of documents, files, plans *)
(* and callers, and whatever other programs do to the files.               *)
(***************************************************************************)
EXTENDS DedupExecution, TLAPS

ExecutorSteps == {"idle", "fresh", "auth", "plan", "pin", "rename", "verify", "record",
                  "rest", "complete"}

RecovererSteps == {"idle", "survey", "observe", "recordObserved", "complete"}

\* Where an executor stands at an action without a result of its own.
AtAction == {"auth", "plan", "pin", "rename", "verify", "record"}

PlanLen(x) == Len(Actions[PlanOf[x]])

PlannedAt(x, n) == Actions[PlanOf[x]][n]

\* What lies in quarantine is what the plan expects.
Exact(x, d) ==
    /\ quarantine[x][d] # None
    /\ content[quarantine[x][d]] = Expected(d)

\* What every call knows about its own locals.
JobsOK ==
    \A c \in Callers :
        /\ pc[c] = "idle" => job[c] = None
        /\ pc[c] # "idle" => job[c] \in Executions

ExecutorsOK ==
    \A e \in Executors :
        /\ pc[e] \in ExecutorSteps
        /\ job[e] # None => job[e] \in claimed
        /\ pc[e] \in AtAction \cup {"rest"} => at[e] \in 1..PlanLen(job[e])
        /\ pc[e] \in {"rename", "verify"} => pinned[e] \in Inodes

RecoverersOK ==
    \A r \in Recoverers :
        /\ pc[r] \in RecovererSteps
        /\ result[r] # "SUCCESS"
        /\ pc[r] \in {"observe", "recordObserved"} => todo[r] \subseteq Planned(job[r])
        /\ pc[r] = "recordObserved" => at[r] \in 1..PlanLen(job[r])

\* A file is in one place.
Placed ==
    /\ \A p, q \in Paths : files[p] # None /\ p # q => files[p] # files[q]
    /\ \A p \in Paths, x \in Executions, d \in Docs :
          quarantine[x][d] # None => files[p] # quarantine[x][d]

\* The action an executor stands at, and those after it, have no SUCCESS yet;
\* those before it have.
InOrder ==
    \A e \in Executors : pc[e] \in AtAction =>
        \A n \in 1..PlanLen(job[e]) :
            /\ n < at[e] => audit[job[e]][PlannedAt(job[e], n)] = "SUCCESS"
            /\ at[e] <= n => audit[job[e]][PlannedAt(job[e], n)] # "SUCCESS"

\* A SUCCESS that is about to be recorded is true already.
SuccessVerified ==
    \A e \in Executors : pc[e] = "record" /\ result[e] = "SUCCESS" =>
        Exact(job[e], PlannedAt(job[e], at[e]))

\* A final status is the one its audits give, and these are complete.
FinalDerived ==
    \A x \in Executions : status[x] \in FinalStatus => AllAudited(x) /\ status[x] = Outcome(x)

\* The induction hypothesis of all theorems.
IInv ==
    /\ TypeOK /\ JobsOK /\ ExecutorsOK /\ RecoverersOK /\ OneExecutor
    /\ Placed /\ InOrder /\ SuccessVerified /\ SuccessExact /\ StopsAtFirstFailure
    /\ FinalDerived
-----------------------------------------------------------------------------
(* Facts about plans                                                       *)

\* A plan has actions, each for a document of its own.
LEMMA PlanFacts ==
    ASSUME NEW x \in Executions
    PROVE  /\ PlanLen(x) \in Nat \ {0}
           /\ \A n \in 1..PlanLen(x) : PlannedAt(x, n) \in Docs
           /\ \A m, n \in 1..PlanLen(x) : PlannedAt(x, m) = PlannedAt(x, n) => m = n
           /\ Planned(x) = {PlannedAt(x, n) : n \in 1..PlanLen(x)}
           /\ Planned(x) \subseteq Docs
<1>1. PlanOf[x] \in Plans /\ Actions[PlanOf[x]] \in Seq(Docs)
  BY PlansAssumption
<1>2. \A n \in 1..PlanLen(x) : PlannedAt(x, n) \in Docs
  BY <1>1 DEF PlanLen, PlannedAt
<1>3. Planned(x) = {PlannedAt(x, n) : n \in 1..PlanLen(x)}
  BY DEF Planned, PlannedAt, PlanLen
<1>4. PlanLen(x) \in Nat \ {0}
  BY <1>1, PlansAssumption DEF PlanLen
<1>5. \A m, n \in 1..PlanLen(x) : PlannedAt(x, m) = PlannedAt(x, n) => m = n
  BY <1>1, PlansAssumption DEF PlanLen, PlannedAt
<1>. QED
  BY <1>2, <1>3, <1>4, <1>5

-----------------------------------------------------------------------------
(* Which steps change what                                                 *)

\* Files move, appear, vanish and change in four kinds of steps only.
LEMMA FileSteps ==
    ASSUME [Next]_vars
    PROVE  \/ UNCHANGED <<files, quarantine, content>>
           \/ \E e \in Executors : Rename(e)
           \/ \E p \in Paths : Remove(p)
           \/ \E p \in Paths, i \in Inodes : Replace(p, i)
           \/ \E p \in Paths, c \in Contents : Write(p, c)
<1>. USE DEF NoFile, fileVars
<1>1. ASSUME NEW e \in Executors, Execute(e), ~Rename(e)
      PROVE  UNCHANGED <<files, quarantine, content>>
  BY <1>1 DEF Execute, Claim, CheckFresh, CheckAuth, CheckPlan, Pin, Verify, Stumble,
      Record, RecordRest
<1>2. ASSUME NEW r \in Recoverers, Recover(r) PROVE UNCHANGED <<files, quarantine, content>>
  BY <1>2 DEF Recover, ClaimRecovery, Survey, Observe, RecordObserved
<1>3. ASSUME NEW c \in Callers, Complete(c) \/ Die(c)
      PROVE  UNCHANGED <<files, quarantine, content>>
  BY <1>3 DEF Complete, Die
<1>4. ASSUME Operators PROVE UNCHANGED <<files, quarantine, content>>
  BY <1>4 DEF Operators, AskAuthorize, Grant, Revoke, Start, CompleteByHand, Reconcile
<1>. QED
  BY <1>1, <1>2, <1>3, <1>4 DEF Next, OtherPrograms, vars

\* Audits are written by three kinds of steps only.
LEMMA AuditSteps ==
    ASSUME [Next]_vars
    PROVE  \/ UNCHANGED audit
           \/ \E e \in Executors : Record(e) \/ RecordRest(e)
           \/ \E r \in Recoverers : RecordObserved(r)
<1>. USE DEF NoRow, rowVars
<1>1. ASSUME NEW e \in Executors, Execute(e), ~Record(e), ~RecordRest(e)
      PROVE  UNCHANGED audit
  BY <1>1 DEF Execute, Claim, CheckFresh, CheckAuth, CheckPlan, Pin, Rename, Verify, Stumble
<1>2. ASSUME NEW r \in Recoverers, Recover(r), ~RecordObserved(r) PROVE UNCHANGED audit
  BY <1>2 DEF Recover, ClaimRecovery, Survey, Observe
<1>3. ASSUME NEW c \in Callers, Complete(c) \/ Die(c) PROVE UNCHANGED audit
  BY <1>3 DEF Complete, Die
<1>4. ASSUME Operators PROVE UNCHANGED audit
  BY <1>4 DEF Operators, AskAuthorize, Grant, Revoke, Start, CompleteByHand, Reconcile
<1>5. ASSUME OtherPrograms PROVE UNCHANGED audit
  BY <1>5 DEF OtherPrograms, Remove, Replace, Write, Touch
<1>. QED
  BY <1>1, <1>2, <1>3, <1>4, <1>5 DEF Next, vars

\* The status is written when an execution starts and when it is finalized.
LEMMA StatusSteps ==
    ASSUME [Next]_vars
    PROVE  \/ UNCHANGED status
           \/ \E c \in Callers : Complete(c)
           \/ \E x \in Executions : Start(x) \/ CompleteByHand(x)
<1>. USE DEF NoRow, rowVars
<1>1. ASSUME NEW e \in Executors, Execute(e) PROVE UNCHANGED status
  BY <1>1 DEF Execute, Claim, CheckFresh, CheckAuth, CheckPlan, Pin, Rename, Verify,
      Stumble, Record, RecordRest
<1>2. ASSUME NEW r \in Recoverers, Recover(r) PROVE UNCHANGED status
  BY <1>2 DEF Recover, ClaimRecovery, Survey, Observe, RecordObserved
<1>3. ASSUME NEW c \in Callers, Die(c) PROVE UNCHANGED status
  BY <1>3 DEF Die
<1>4. ASSUME NEW x \in Executions, NEW d \in Planned(x), NEW r \in Reconcilable,
             Reconcile(x, d, r)
      PROVE  UNCHANGED status
  BY <1>4 DEF Reconcile
<1>5. ASSUME NEW x \in Executions, AskAuthorize(x) \/ Grant(x) \/ Revoke(x)
      PROVE  UNCHANGED status
  BY <1>5 DEF AskAuthorize, Grant, Revoke
<1>6. ASSUME OtherPrograms PROVE UNCHANGED status
  BY <1>6 DEF OtherPrograms, Remove, Replace, Write, Touch
<1>. QED
  BY <1>1, <1>2, <1>3, <1>4, <1>5, <1>6 DEF Next, Operators, vars

\* The locals of calls change in their own steps only, and one call at a time.
LEMMA CallSteps ==
    ASSUME [Next]_vars
    PROVE  \/ UNCHANGED callVars
           \/ \E e \in Executors : Execute(e)
           \/ \E r \in Recoverers : Recover(r)
           \/ \E c \in Callers : Complete(c) \/ Die(c)
<1>1. ASSUME Operators PROVE UNCHANGED callVars
  BY <1>1 DEF Operators, AskAuthorize, Grant, Revoke, Start, CompleteByHand, Reconcile,
      callVars
<1>2. ASSUME OtherPrograms PROVE UNCHANGED callVars
  BY <1>2 DEF OtherPrograms, Remove, Replace, Write, Touch
<1>3. CASE UNCHANGED vars
  BY <1>3 DEF vars
<1>. QED
  BY <1>1, <1>2, <1>3 DEF Next

\* A claim is never given back.
LEMMA ClaimSteps ==
    ASSUME [Next]_vars
    PROVE  \/ UNCHANGED claimed
           \/ \E e \in Executors, x \in Executions : Claim(e, x)
<1>. USE DEF NoRow, rowVars
<1>1. ASSUME NEW e \in Executors, Execute(e), ~\E x \in Executions : Claim(e, x)
      PROVE  UNCHANGED claimed
  BY <1>1 DEF Execute, CheckFresh, CheckAuth, CheckPlan, Pin, Rename, Verify,
      Stumble, Record, RecordRest
<1>2. ASSUME NEW r \in Recoverers, Recover(r) PROVE UNCHANGED claimed
  BY <1>2 DEF Recover, ClaimRecovery, Survey, Observe, RecordObserved
<1>3. ASSUME NEW c \in Callers, Complete(c) \/ Die(c) PROVE UNCHANGED claimed
  BY <1>3 DEF Complete, Die
<1>4. ASSUME Operators PROVE UNCHANGED claimed
  BY <1>4 DEF Operators, AskAuthorize, Grant, Revoke, Start, CompleteByHand, Reconcile
<1>5. ASSUME OtherPrograms PROVE UNCHANGED claimed
  BY <1>5 DEF OtherPrograms, Remove, Replace, Write, Touch
<1>. QED
  BY <1>1, <1>2, <1>3, <1>4, <1>5 DEF Next, vars

-----------------------------------------------------------------------------
(* The locals of calls                                                     *)

LocalTypes ==
    /\ pc \in [Callers -> Steps]
    /\ job \in [Callers -> Executions \cup {None}]
    /\ at \in [Callers -> Nat]
    /\ pinned \in [Callers -> Inodes \cup {None}]
    /\ result \in [Callers -> Results \cup {None}]
    /\ todo \in [Callers -> SUBSET Docs]

LocalInv == LocalTypes /\ JobsOK /\ ExecutorsOK /\ RecoverersOK

\* A call that ends knows nothing any more.
LEMMA FinishLocals ==
    ASSUME LocalInv, NEW c \in Callers, Finish(c), UNCHANGED claimed PROVE LocalInv'
<1>. USE CallersAssumption, NoneAssumption DEF LocalInv, LocalTypes, Finish, Goto, Callers
<1>1. LocalTypes'
  BY DEF Steps
<1>2. \A b \in Callers \ {c} :
         /\ pc'[b] = pc[b] /\ job'[b] = job[b] /\ at'[b] = at[b]
         /\ pinned'[b] = pinned[b] /\ result'[b] = result[b] /\ todo'[b] = todo[b]
  OBVIOUS
<1>3. pc'[c] = "idle" /\ job'[c] = None /\ result'[c] = None
  OBVIOUS
<1>. HIDE DEF LocalTypes, Finish, Goto
<1>4. JobsOK'
  BY <1>2, <1>3 DEF JobsOK
<1>5. ExecutorsOK'
  <2>. SUFFICES ASSUME NEW e \in Executors PROVE ExecutorsOK!(e)'
    BY DEF ExecutorsOK
  <2>1. CASE e = c
    BY <2>1, <1>3 DEF ExecutorSteps, AtAction
  <2>2. CASE e # c
    BY <2>2, <1>2 DEF ExecutorsOK, PlanLen
  <2>. QED
    BY <2>1, <2>2
<1>6. RecoverersOK'
  <2>. SUFFICES ASSUME NEW r \in Recoverers PROVE RecoverersOK!(r)'
    BY DEF RecoverersOK
  <2>1. CASE r = c
    BY <2>1, <1>3 DEF RecovererSteps, Results
  <2>2. CASE r # c
    BY <2>2, <1>2 DEF RecoverersOK, PlanLen, Planned
  <2>. QED
    BY <2>1, <2>2
<1>. QED
  BY <1>1, <1>4, <1>5, <1>6

\* An executor that settles a result stays at its action.
LEMMA ReportLocals ==
    ASSUME LocalInv, NEW e \in Executors, pc[e] \in AtAction, NEW q \in Results, Report(e, q),
           UNCHANGED <<job, at, pinned, todo, claimed>>
    PROVE  LocalInv'
<1>0. /\ LocalTypes /\ e \in Callers
      /\ pc' = [pc EXCEPT ![e] = "record"] /\ result' = [result EXCEPT ![e] = q]
  BY DEF Report, Goto, Callers, LocalInv
<1>1. LocalTypes'
  BY <1>0 DEF LocalTypes, Steps
<1>2. /\ pc'[e] = "record"
      /\ \A c \in Callers \ {e} : pc'[c] = pc[c] /\ result'[c] = result[c]
  BY <1>0 DEF LocalTypes
<1>3. JobsOK'
  BY <1>0, <1>2 DEF LocalInv, JobsOK, AtAction
<1>4. ExecutorsOK'
  BY <1>2 DEF LocalInv, ExecutorsOK, Callers, ExecutorSteps, AtAction, PlanLen
<1>5. RecoverersOK'
  BY <1>2, CallersAssumption, SMTT(30)
     DEF LocalInv, RecoverersOK, Callers, PlanLen, Planned
<1>. QED
  BY <1>1, <1>3, <1>4, <1>5 DEF LocalInv

\* An executor's step keeps what the calls know about their locals.
LEMMA ExecutorLocals ==
    ASSUME TypeOK, LocalInv, NEW e \in Executors, Execute(e) PROVE LocalInv'
<1>. DEFINE x == job[e]
<1>0. pc[e] # "idle" => x \in Executions /\ PlanLen(x) \in Nat \ {0}
  BY PlanFacts DEF LocalInv, JobsOK, Callers
<1>. USE CallersAssumption, NoneAssumption
<1>. USE DEF LocalInv, LocalTypes, JobsOK, ExecutorsOK, RecoverersOK, Callers, Steps,
    ExecutorSteps, RecovererSteps, AtAction, PlanLen, Planned, Goto, NoRow, NoFile, rowVars
<1>1. ASSUME NEW y \in Executions, Claim(e, y) PROVE LocalInv'
  <2>1. /\ pc' = [pc EXCEPT ![e] = "fresh"] /\ job' = [job EXCEPT ![e] = y]
        /\ claimed' = claimed \cup {y}
        /\ UNCHANGED <<at, pinned, result, todo>>
    BY <1>1 DEF Claim
  <2>. QED
    BY <2>1
<1>2. CASE CheckFresh(e)
  <2>1. CASE Finish(e)
    BY <1>2, <2>1, FinishLocals DEF CheckFresh
  <2>2. CASE /\ Goto(e, "auth")
             /\ at' = [at EXCEPT ![e] = 1]
             /\ UNCHANGED <<job, pinned, result, todo>>
    BY <1>0, <1>2, <2>2 DEF CheckFresh
  <2>. QED
    BY <1>2, <2>1, <2>2 DEF CheckFresh
<1>3. CASE CheckAuth(e)
  <2>1. CASE auth[job[e]] = "AUTHORIZED"
    <3>1. /\ pc[e] = "auth" /\ pc' = [pc EXCEPT ![e] = "plan"]
          /\ UNCHANGED <<job, at, pinned, result, todo, claimed>>
      BY <1>3, <2>1 DEF CheckAuth
    <3>. QED
      BY <3>1
  <2>2. CASE auth[job[e]] # "AUTHORIZED"
    BY <1>3, <2>2, ReportLocals DEF CheckAuth, Results
  <2>. QED
    BY <2>1, <2>2
<1>4. CASE CheckPlan(e)
  <2>1. CASE CanonicalValid(job[e]) /\ Unchanged(Action(e))
    <3>1. /\ pc[e] = "plan" /\ pc' = [pc EXCEPT ![e] = "pin"]
          /\ UNCHANGED <<job, at, pinned, result, todo, claimed>>
      BY <1>4, <2>1 DEF CheckPlan
    <3>. QED
      BY <3>1
  <2>2. CASE ~(CanonicalValid(job[e]) /\ Unchanged(Action(e)))
    BY <1>4, <2>2, ReportLocals DEF CheckPlan, Results
  <2>. QED
    BY <2>1, <2>2
<1>5. CASE Pin(e)
  <2>1. CASE ~Unchanged(Action(e))
    BY <1>5, <2>1, ReportLocals DEF Pin, Results
  <2>2. CASE Unchanged(Action(e))
    <3>1. Action(e) \in Docs
      BY <1>0, <1>5, PlanFacts DEF Pin, Action, PlannedAt
    <3>. DEFINE i == files[SourceOf[Action(e)]]
    <3>2. i \in Inodes
      BY <2>2, <3>1, FilesAssumption DEF Unchanged, TypeOK, FilesTypeOK
    <3>3. /\ pc[e] = "pin" /\ pc' = [pc EXCEPT ![e] = "rename"]
          /\ pinned' = [pinned EXCEPT ![e] = i]
          /\ UNCHANGED <<result, job, at, todo, claimed>>
      BY <1>5, <2>2 DEF Pin
    <3>. HIDE DEF i
    <3>. QED
      BY <3>2, <3>3
  <2>. QED
    BY <2>1, <2>2
<1>6. CASE Rename(e)
  <2>1. CASE Move(e)
    <3>1. /\ pc[e] = "rename" /\ pc' = [pc EXCEPT ![e] = "verify"]
          /\ UNCHANGED <<job, at, pinned, result, todo, claimed>>
      BY <1>6, <2>1 DEF Rename, Move
    <3>. QED
      BY <3>1
  <2>2. CASE RenameFails(e)
    BY <1>6, <2>2, ReportLocals DEF Rename, RenameFails, Results
  <2>. QED
    BY <1>6, <2>1, <2>2 DEF Rename
<1>7. CASE Verify(e)
  BY <1>7, ReportLocals DEF Verify, Results
<1>8. CASE Stumble(e)
  BY <1>8, ReportLocals DEF Stumble, Results
<1>9. CASE Record(e)
  <2>. DEFINE step == pc'[e]
  <2>1. /\ pc[e] = "record" /\ pc' = [pc EXCEPT ![e] = step]
        /\ at' = [at EXCEPT ![e] = at[e] + 1]
        /\ pinned' = [pinned EXCEPT ![e] = None]
        /\ result' = [result EXCEPT ![e] = None]
        /\ UNCHANGED <<job, todo, claimed>>
    BY <1>9 DEF Record, Advance
  <2>2. /\ step \in {"complete", "auth", "rest"}
        /\ step # "complete" => at[e] + 1 \in 1..PlanLen(x)
        /\ at[e] + 1 \in Nat
    BY <1>0, <1>9, <2>1 DEF Record, Advance
  <2>. HIDE DEF step
  <2>. QED
    BY <2>1, <2>2
<1>10. CASE RecordRest(e)
  <2>1. CASE Finish(e)
    BY <1>10, <2>1, FinishLocals DEF RecordRest
  <2>2. CASE Advance(e, "rest") /\ UNCHANGED <<job, pinned, result, todo>>
    <3>. DEFINE step == IF at[e] = Len(Actions[PlanOf[x]]) THEN "complete" ELSE "rest"
    <3>1. /\ pc[e] = "rest" /\ pc' = [pc EXCEPT ![e] = step]
          /\ at' = [at EXCEPT ![e] = at[e] + 1]
          /\ UNCHANGED <<job, pinned, result, todo, claimed>>
      BY <1>10, <2>2 DEF RecordRest, Advance
    <3>2. /\ step \in {"complete", "rest"}
          /\ step = "rest" => at[e] + 1 \in 1..PlanLen(x)
          /\ at[e] + 1 \in Nat
      BY <1>0, <3>1
    <3>. HIDE DEF step
    <3>. QED
      BY <3>1, <3>2, SMTT(30)
  <2>. QED
    BY <1>10, <2>1, <2>2 DEF RecordRest
<1>. QED
  BY <1>1, <1>2, <1>3, <1>4, <1>5, <1>6, <1>7, <1>8, <1>9, <1>10 DEF Execute

\* A step of recovery does.
LEMMA RecovererLocals ==
    ASSUME TypeOK, LocalInv, NEW r \in Recoverers, Recover(r) PROVE LocalInv'
<1>. USE CallersAssumption, NoneAssumption
<1>. USE DEF LocalInv, LocalTypes, JobsOK, ExecutorsOK, RecoverersOK, Callers, Steps,
    ExecutorSteps, RecovererSteps, AtAction, PlanLen, Planned, Goto, NoRow, NoFile, rowVars
<1>1. ASSUME NEW x \in Executions, ClaimRecovery(r, x) PROVE LocalInv'
  BY <1>1, SMTT(30) DEF ClaimRecovery
<1>2. CASE Survey(r)
  <2>1. CASE Finish(r)
    BY <1>2, <2>1, FinishLocals DEF Survey
  <2>2. CASE ~Finish(r)
    <3>. DEFINE left == {d \in Planned(job[r]) : audit[job[r]][d] = None}
    <3>1. left \in SUBSET Docs /\ left \subseteq Planned(job[r])
      BY <1>2, PlanFacts DEF Survey
    <3>. HIDE DEF left
    <3>2. /\ pc[r] = "survey"
          /\ todo' = [todo EXCEPT ![r] = left]
          /\ pc' = [pc EXCEPT ![r] = "observe"]
          /\ UNCHANGED <<job, at, pinned, result, claimed>>
      BY <1>2, <2>2 DEF Survey, left
    <3>. QED
      BY <3>1, <3>2
  <2>. QED
    BY <2>1, <2>2
<1>3. CASE Observe(r)
  <2>1. PICK d \in todo[r] :
           /\ todo' = [todo EXCEPT ![r] = @ \ {d}]
           /\ at' = [at EXCEPT ![r] = CHOOSE n \in 1..Len(Actions[PlanOf[job[r]]]) :
                                          Actions[PlanOf[job[r]]][n] = d]
           /\ result' = [result EXCEPT ![r] = IF Unchanged(d) THEN "NOT_ATTEMPTED"
                                              ELSE "UNKNOWN"]
    BY <1>3 DEF Observe
  <2>2. pc[r] = "observe" /\ pc' = [pc EXCEPT ![r] = "recordObserved"]
        /\ UNCHANGED <<job, pinned, claimed>>
    BY <1>3 DEF Observe
  <2>3. job[r] \in Executions /\ d \in Planned(job[r])
    BY <2>1, <2>2
  <2>. DEFINE n == CHOOSE n \in 1..PlanLen(job[r]) : PlannedAt(job[r], n) = d
  <2>4. n \in 1..PlanLen(job[r])
    BY <2>3 DEF PlannedAt
  <2>5. at' = [at EXCEPT ![r] = n]
    BY <2>1 DEF PlannedAt
  <2>. HIDE DEF n
  <2>. DEFINE outcome == IF Unchanged(d) THEN "NOT_ATTEMPTED" ELSE "UNKNOWN"
  <2>6. outcome \in Results \ {"SUCCESS"} /\ result' = [result EXCEPT ![r] = outcome]
    BY <2>1 DEF Results
  <2>. HIDE DEF outcome
  <2>. DEFINE left == todo[r] \ {d}
  <2>7. /\ left \in SUBSET Docs /\ left \subseteq Planned(job[r])
        /\ todo' = [todo EXCEPT ![r] = left]
    BY <2>1, <2>2
  <2>. HIDE DEF left
  <2>8. LocalTypes'
    <3>1. pc' \in [Callers -> Steps] /\ at' \in [Callers -> Nat]
      BY <2>2, <2>4, <2>5
    <3>2. result' \in [Callers -> Results \cup {None}] /\ todo' \in [Callers -> SUBSET Docs]
      BY <2>6, <2>7
    <3>. QED
      BY <2>2, <3>1, <3>2
  <2>9. JobsOK'
    BY <2>2, <2>3
  <2>10. ExecutorsOK'
    BY <2>2, <2>5
  <2>11. RecoverersOK'
    <3>1. \A q \in Recoverers \ {r} :
             /\ pc'[q] = pc[q] /\ job'[q] = job[q] /\ at'[q] = at[q]
             /\ result'[q] = result[q] /\ todo'[q] = todo[q]
      BY <2>2, <2>5, <2>6, <2>7
    <3>2. /\ pc'[r] \in RecovererSteps /\ job'[r] = job[r]
          /\ at'[r] = n /\ result'[r] = outcome /\ todo'[r] = left
      BY <2>2, <2>5, <2>6, <2>7
    <3>3. RecoverersOK
      OBVIOUS
    <3>4. ASSUME NEW q \in Recoverers \ {r}
          PROVE  /\ pc'[q] \in RecovererSteps /\ result'[q] # "SUCCESS"
                 /\ pc'[q] \in {"observe", "recordObserved"} => todo'[q] \subseteq Planned(job'[q])
                 /\ pc'[q] = "recordObserved" => at'[q] \in 1..PlanLen(job'[q])
      BY <3>1, <3>3, SMTT(30)
    <3>. QED
      BY <2>4, <2>6, <2>7, <3>2, <3>4, SMTT(30)
  <2>. QED
    BY <2>8, <2>9, <2>10, <2>11
<1>4. CASE RecordObserved(r)
  BY <1>4 DEF RecordObserved, Results
<1>. QED
  BY <1>1, <1>2, <1>3, <1>4 DEF Recover

\* Every step does.
LEMMA Locals == TypeOK /\ LocalInv /\ [Next]_vars => LocalInv'
<1>. SUFFICES ASSUME TypeOK, LocalInv, [Next]_vars PROVE LocalInv'
  OBVIOUS
<1>1. ASSUME NEW c \in Callers, Complete(c) \/ Die(c) PROVE LocalInv'
  BY <1>1, FinishLocals DEF Complete, Die, NoRow, rowVars
<1>2. CASE UNCHANGED callVars
  BY <1>2, ClaimSteps, CallersAssumption DEF Claim, LocalInv, LocalTypes, JobsOK,
      ExecutorsOK, RecoverersOK, callVars, PlanLen, Planned
<1>. QED
  BY <1>1, <1>2, ExecutorLocals, RecovererLocals, CallSteps

-----------------------------------------------------------------------------
(* Types                                                                   *)

\* The initial state satisfies the induction hypothesis.
LEMMA InitInv == Init => IInv
<1>. SUFFICES ASSUME Init PROVE IInv
  OBVIOUS
<1>. USE NoneAssumption, FilesAssumption DEF Init
<1>1. scenario \in Scenarios
  OBVIOUS
<1>2. FilesTypeOK
  BY DEF FilesTypeOK
<1>3. RowsTypeOK
  BY DEF RowsTypeOK, AuthStates, ExecutionStatus
<1>4. CallsTypeOK
  BY DEF CallsTypeOK, Steps
<1>5. JobsOK
  BY DEF JobsOK
<1>6. ExecutorsOK
  BY DEF ExecutorsOK, ExecutorSteps, AtAction, Callers
<1>7. RecoverersOK
  BY DEF RecoverersOK, RecovererSteps, Callers, Results
<1>8. OneExecutor
  BY DEF OneExecutor, Callers
<1>9. Placed
  BY DEF Placed
<1>10. InOrder /\ SuccessVerified
  BY DEF InOrder, SuccessVerified, AtAction, Callers
<1>11. SuccessExact
  BY PlanFacts DEF SuccessExact, Results
<1>12. StopsAtFirstFailure
  BY PlanFacts DEF StopsAtFirstFailure, PlanLen, PlannedAt
<1>13. FinalDerived
  BY DEF FinalDerived, FinalStatus
<1>. QED
  BY <1>1, <1>2, <1>3, <1>4, <1>5, <1>6, <1>7, <1>8, <1>9, <1>10, <1>11, <1>12, <1>13
     DEF IInv, TypeOK

\* What stands for the locals in the induction hypothesis.
LEMMA LocalsOfInv == IInv => TypeOK /\ LocalInv
BY DEF IInv, TypeOK, CallsTypeOK, LocalInv, LocalTypes

\* Paths and quarantine slots hold files, files hold contents.
LEMMA FileTypes == IInv /\ [Next]_vars => FilesTypeOK'
<1>. SUFFICES ASSUME IInv, [Next]_vars PROVE FilesTypeOK'
  OBVIOUS
<1>. USE DEF FilesTypeOK
<1>0. FilesTypeOK
  BY DEF IInv, TypeOK
<1>1. ASSUME NEW e \in Executors, Rename(e) PROVE FilesTypeOK'
  <2>1. CASE Move(e)
    <3>1. job[e] \in Executions /\ at[e] \in 1..PlanLen(job[e])
      BY <1>1, LocalsOfInv DEF Rename, LocalInv, JobsOK, ExecutorsOK, AtAction, Callers
    <3>2. Action(e) \in Docs
      BY <3>1, PlanFacts DEF Action, PlannedAt
    <3>3. SourceOf[Action(e)] \in Paths
      BY <3>2, FilesAssumption
    <3>. QED
      BY <1>0, <2>1, <3>1, <3>2, <3>3 DEF Move
  <2>2. CASE RenameFails(e)
    BY <1>0, <2>2 DEF RenameFails, NoFile, fileVars
  <2>. QED
    BY <1>1, <2>1, <2>2 DEF Rename
<1>2. ASSUME NEW p \in Paths, Remove(p) PROVE FilesTypeOK'
  BY <1>0, <1>2 DEF Remove, Touch
<1>3. ASSUME NEW p \in Paths, NEW i \in Inodes, Replace(p, i) PROVE FilesTypeOK'
  BY <1>0, <1>3 DEF Replace, Touch
<1>4. ASSUME NEW p \in Paths, NEW c \in Contents, Write(p, c) PROVE FilesTypeOK'
  BY <1>0, <1>4 DEF Write, Touch
<1>. QED
  BY <1>0, <1>1, <1>2, <1>3, <1>4, FileSteps

\* An audit is written once.
LEMMA AuditOnce ==
    IInv /\ [Next]_vars =>
        /\ audit' \in [Executions -> [Docs -> Results \cup {None}]]
        /\ \A x \in Executions, d \in Docs : audit[x][d] # None => audit'[x][d] = audit[x][d]
<1>. SUFFICES ASSUME IInv, [Next]_vars
              PROVE  /\ audit' \in [Executions -> [Docs -> Results \cup {None}]]
                     /\ \A x \in Executions, d \in Docs :
                           audit[x][d] # None => audit'[x][d] = audit[x][d]
  OBVIOUS
<1>0. audit \in [Executions -> [Docs -> Results \cup {None}]]
  BY DEF IInv, TypeOK, RowsTypeOK
<1>1. ASSUME NEW x, NEW d, NEW r \in Results \cup {None}, Audit(x, d, r)
      PROVE  /\ audit' \in [Executions -> [Docs -> Results \cup {None}]]
             /\ \A y \in Executions, b \in Docs :
                   audit[y][b] # None => audit'[y][b] = audit[y][b]
  BY <1>0, <1>1 DEF Audit
<1>2. \A c \in Callers : result[c] \in Results \cup {None}
  BY DEF IInv, TypeOK, CallsTypeOK
<1>3. ASSUME NEW e \in Executors, Record(e) PROVE Audit(job[e], Action(e), result[e])
  BY <1>3 DEF Record
<1>4. ASSUME NEW e \in Executors, RecordRest(e)
      PROVE  Audit(job[e], Action(e), "NOT_ATTEMPTED")
  BY <1>4 DEF RecordRest
<1>5. ASSUME NEW r \in Recoverers, RecordObserved(r)
      PROVE  Audit(job[r], Action(r), result[r])
  BY <1>5 DEF RecordObserved
<1>6. "NOT_ATTEMPTED" \in Results /\ Executors \subseteq Callers /\ Recoverers \subseteq Callers
  BY DEF Results, Callers
<1>. QED
  BY <1>0, <1>1, <1>2, <1>3, <1>4, <1>5, <1>6, AuditSteps

\* The rows of the database keep their types.
LEMMA RowTypes == IInv /\ [Next]_vars => RowsTypeOK'
<1>. SUFFICES ASSUME IInv, [Next]_vars PROVE RowsTypeOK'
  OBVIOUS
<1>0. RowsTypeOK
  BY DEF IInv, TypeOK
<1>1. audit' \in [Executions -> [Docs -> Results \cup {None}]]
  BY AuditOnce
<1>2. \A c \in Callers : pc[c] # "idle" => job[c] \in Executions
  BY DEF IInv, JobsOK
<1>3. status' \in [Executions -> ExecutionStatus]
  <2>1. \A x \in Executions : Outcome(x) \in ExecutionStatus
    BY DEF Outcome, ExecutionStatus, FinalStatus
  <2>2. ASSUME NEW c \in Callers, Complete(c) PROVE status' \in [Executions -> ExecutionStatus]
    BY <1>0, <1>2, <2>1, <2>2 DEF Complete, Finalize, RowsTypeOK
  <2>3. ASSUME NEW x \in Executions, Start(x) \/ CompleteByHand(x)
        PROVE  status' \in [Executions -> ExecutionStatus]
    BY <1>0, <2>1, <2>3 DEF Start, CompleteByHand, Finalize, RowsTypeOK, ExecutionStatus
  <2>. QED
    BY <1>0, <2>2, <2>3, StatusSteps DEF RowsTypeOK
<1>4. claimed' \subseteq Executions
  BY <1>0, ClaimSteps DEF RowsTypeOK, Claim
<1>5. /\ auth' \in [Executions -> AuthStates]
      /\ recoveryClaimed' \subseteq Executions
      /\ reconciled' \in [Executions -> [Docs -> Reconcilable \cup {None}]]
  <2>. USE <1>0 DEF RowsTypeOK, NoRow, rowVars
  <2>1. ASSUME NEW e \in Executors, Execute(e)
        PROVE  UNCHANGED <<auth, recoveryClaimed, reconciled>>
    BY <2>1 DEF Execute, Claim, CheckFresh, CheckAuth, CheckPlan, Pin, Rename, Verify,
        Stumble, Record, RecordRest
  <2>2. ASSUME NEW r \in Recoverers, Recover(r)
        PROVE  UNCHANGED <<auth, reconciled>> /\ recoveryClaimed' \subseteq Executions
    BY <2>2 DEF Recover, ClaimRecovery, Survey, Observe, RecordObserved
  <2>3. ASSUME NEW c \in Callers, Complete(c) \/ Die(c)
        PROVE  UNCHANGED <<auth, recoveryClaimed, reconciled>>
    BY <2>3 DEF Complete, Die
  <2>4. ASSUME NEW x \in Executions,
               AskAuthorize(x) \/ Grant(x) \/ Revoke(x) \/ Start(x) \/ CompleteByHand(x)
        PROVE  /\ auth' \in [Executions -> AuthStates]
               /\ UNCHANGED <<recoveryClaimed, reconciled>>
    BY <2>4 DEF AskAuthorize, Grant, Revoke, Start, CompleteByHand, AuthStates
  <2>5. ASSUME NEW x \in Executions, NEW d \in Planned(x), NEW r \in Reconcilable,
               Reconcile(x, d, r)
        PROVE  /\ UNCHANGED <<auth, recoveryClaimed>>
               /\ reconciled' \in [Executions -> [Docs -> Reconcilable \cup {None}]]
    BY <2>5 DEF Reconcile
  <2>6. ASSUME OtherPrograms PROVE UNCHANGED <<auth, recoveryClaimed, reconciled>>
    BY <2>6 DEF OtherPrograms, Remove, Replace, Write, Touch
  <2>. QED
    BY <2>1, <2>2, <2>3, <2>4, <2>5, <2>6 DEF Next, Operators, vars
<1>. QED
  BY <1>1, <1>3, <1>4, <1>5 DEF RowsTypeOK

\* The counters of the history.
LEMMA HistoryTypes ==
    IInv /\ [Next]_vars => touches' \in Nat /\ lateMoves' \in [Executions -> Nat]
<1>. SUFFICES ASSUME IInv, [Next]_vars
              PROVE  touches' \in Nat /\ lateMoves' \in [Executions -> Nat]
  OBVIOUS
<1>. USE DEF NoFile, fileVars
<1>0. touches \in Nat /\ lateMoves \in [Executions -> Nat]
  BY DEF IInv, TypeOK, CallsTypeOK
<1>1. ASSUME NEW e \in Executors, Execute(e), ~Rename(e)
      PROVE  UNCHANGED <<touches, lateMoves>>
  BY <1>1 DEF Execute, Claim, CheckFresh, CheckAuth, CheckPlan, Pin, Verify, Stumble,
      Record, RecordRest
<1>2. ASSUME NEW e \in Executors, Rename(e)
      PROVE  touches' = touches /\ lateMoves' \in [Executions -> Nat]
  BY <1>0, <1>2 DEF Rename, Move, RenameFails
<1>3. ASSUME NEW r \in Recoverers, Recover(r) PROVE UNCHANGED <<touches, lateMoves>>
  BY <1>3 DEF Recover, ClaimRecovery, Survey, Observe, RecordObserved
<1>4. ASSUME NEW c \in Callers, Complete(c) \/ Die(c) PROVE UNCHANGED <<touches, lateMoves>>
  BY <1>4 DEF Complete, Die
<1>5. ASSUME Operators PROVE UNCHANGED <<touches, lateMoves>>
  BY <1>5 DEF Operators, AskAuthorize, Grant, Revoke, Start, CompleteByHand, Reconcile
<1>6. ASSUME OtherPrograms PROVE touches' \in Nat /\ UNCHANGED lateMoves
  BY <1>0, <1>6 DEF OtherPrograms, Remove, Replace, Write, Touch
<1>. QED
  BY <1>0, <1>1, <1>2, <1>3, <1>4, <1>5, <1>6 DEF Next, vars

\* All types, and what the calls know.
LEMMA Types ==
    IInv /\ [Next]_vars => TypeOK' /\ JobsOK' /\ ExecutorsOK' /\ RecoverersOK'
<1>. SUFFICES ASSUME IInv, [Next]_vars
              PROVE  TypeOK' /\ JobsOK' /\ ExecutorsOK' /\ RecoverersOK'
  OBVIOUS
<1>1. LocalInv'
  BY Locals, LocalsOfInv
<1>2. scenario' \in Scenarios
  BY DEF Next, vars, IInv, TypeOK
<1>3. CallsTypeOK'
  BY <1>1, HistoryTypes DEF CallsTypeOK, LocalInv, LocalTypes
<1>. QED
  BY <1>1, <1>2, <1>3, FileTypes, RowTypes DEF TypeOK, LocalInv

-----------------------------------------------------------------------------
(* What one step does                                                      *)

\* An executor's locals change in its own steps only.
LEMMA OwnSteps ==
    ASSUME IInv, [Next]_vars, NEW e \in Executors
    PROVE  \/ /\ pc'[e] = pc[e] /\ job'[e] = job[e] /\ at'[e] = at[e]
              /\ pinned'[e] = pinned[e] /\ result'[e] = result[e]
           \/ Execute(e) \/ Complete(e) \/ Die(e)
<1>. DEFINE Still == /\ pc'[e] = pc[e] /\ job'[e] = job[e] /\ at'[e] = at[e]
                     /\ pinned'[e] = pinned[e] /\ result'[e] = result[e]
<1>0. LocalTypes
  BY LocalsOfInv DEF LocalInv
<1>. USE <1>0 DEF LocalTypes, Callers, Goto, Report, Advance, Finish
<1>1. ASSUME NEW f \in Executors, Execute(f), f # e PROVE Still
  BY <1>1 DEF Execute, Claim, CheckFresh, CheckAuth, CheckPlan, Pin, Rename, Move,
      RenameFails, Verify, Stumble, Record, RecordRest
<1>2. ASSUME NEW r \in Recoverers, Recover(r) PROVE Still
  BY <1>2, CallersAssumption DEF Recover, ClaimRecovery, Survey, Observe, RecordObserved
<1>3. ASSUME NEW c \in Callers, Complete(c) \/ Die(c), c # e PROVE Still
  BY <1>3 DEF Complete, Die
<1>4. CASE UNCHANGED callVars
  BY <1>4 DEF callVars
<1>. QED
  BY <1>1, <1>2, <1>3, <1>4, CallSteps

\* Only a claim gives an executor an execution, and a claimed one has no owner yet.
LEMMA JobSteps ==
    ASSUME IInv, [Next]_vars, NEW e \in Executors, job'[e] # None, job'[e] # job[e]
    PROVE  /\ job'[e] \notin claimed
           /\ \A f \in Executors \ {e} : job'[f] = job[f]
<1>0. LocalTypes
  BY LocalsOfInv DEF LocalInv
<1>1. Execute(e) \/ Complete(e) \/ Die(e)
  BY OwnSteps
<1>. USE <1>0 DEF LocalTypes, Callers, Goto, Finish
<1>2. PICK x \in Executions : Claim(e, x)
  BY <1>1 DEF Execute, Complete, Die, CheckFresh, CheckAuth, CheckPlan, Pin, Rename,
      Verify, Stumble, Record, RecordRest
<1>. QED
  BY <1>2 DEF Claim

\* A SUCCESS comes from the executor that has the execution.
LEMMA SuccessSteps ==
    ASSUME IInv, [Next]_vars, NEW x \in Executions, NEW d \in Docs,
           audit[x][d] # "SUCCESS", audit'[x][d] = "SUCCESS"
    PROVE  \E e \in Executors :
              Record(e) /\ job[e] = x /\ Action(e) = d /\ result[e] = "SUCCESS"
<1>0. audit \in [Executions -> [Docs -> Results \cup {None}]]
  BY DEF IInv, TypeOK, RowsTypeOK
<1>1. ASSUME NEW y, NEW b, NEW r, Audit(y, b, r) PROVE y = x /\ b = d /\ r = "SUCCESS"
  BY <1>0, <1>1 DEF Audit
<1>2. ASSUME NEW e \in Executors, RecordRest(e) PROVE FALSE
  BY <1>1, <1>2 DEF RecordRest
<1>3. ASSUME NEW r \in Recoverers, RecordObserved(r) PROVE FALSE
  BY <1>1, <1>3 DEF RecordObserved, IInv, RecoverersOK
<1>. QED
  BY <1>1, <1>2, <1>3, AuditSteps DEF Record

\* A quarantine slot is filled by the executor that has the execution.
LEMMA QuarantineSteps ==
    ASSUME IInv, [Next]_vars, NEW x \in Executions, NEW d \in Docs,
           quarantine'[x][d] # quarantine[x][d]
    PROVE  \E e \in Executors : Rename(e) /\ job[e] = x /\ Action(e) = d
<1>0. quarantine \in [Executions -> [Docs -> Inodes \cup {None}]]
  BY DEF IInv, TypeOK, FilesTypeOK
<1>1. ASSUME NEW p \in Paths PROVE ~Remove(p)
  BY DEF Remove, Touch
<1>2. ASSUME NEW p \in Paths, NEW i \in Inodes PROVE ~Replace(p, i)
  BY DEF Replace, Touch
<1>3. ASSUME NEW p \in Paths, NEW c \in Contents PROVE ~Write(p, c)
  BY DEF Write, Touch
<1>4. PICK e \in Executors : Rename(e)
  BY <1>1, <1>2, <1>3, FileSteps
<1>5. Move(e)
  BY <1>4 DEF Rename, RenameFails, NoFile, fileVars
<1>. QED
  BY <1>0, <1>4, <1>5 DEF Move

\* What is in quarantine is out of every program's reach.
LEMMA ExactKept ==
    ASSUME IInv, [Next]_vars, NEW x \in Executions, NEW d \in Docs, Exact(x, d),
           \A e \in Executors : Rename(e) /\ job[e] = x => Action(e) # d
    PROVE  Exact(x, d)'
<1>0. /\ quarantine \in [Executions -> [Docs -> Inodes \cup {None}]]
      /\ content \in [Inodes -> Contents]
      /\ files \in [Paths -> Inodes \cup {None}]
  BY DEF IInv, TypeOK, FilesTypeOK
<1>1. quarantine'[x][d] = quarantine[x][d]
  BY QuarantineSteps
<1>. DEFINE i == quarantine[x][d]
<1>2. i \in Inodes
  BY <1>0 DEF Exact
<1>3. \A p \in Paths : files[p] # i
  BY <1>2, NoneAssumption DEF IInv, Placed
<1>4. content'[i] = content[i]
  <2>1. ASSUME NEW e \in Executors, Rename(e) PROVE UNCHANGED content
    BY <2>1 DEF Rename, Move, RenameFails, NoFile, fileVars
  <2>2. ASSUME NEW p \in Paths, NEW c \in Contents, Write(p, c) PROVE content'[i] = content[i]
    BY <1>0, <1>2, <1>3, <2>2 DEF Write
  <2>. QED
    BY <2>1, <2>2, FileSteps DEF Remove, Replace
<1>5. Expected(d)' = Expected(d)
  BY DEF Expected
<1>. QED
  BY <1>1, <1>4, <1>5 DEF Exact

-----------------------------------------------------------------------------
(* The parts of the induction hypothesis                                   *)

\* Two executors never have the same execution.
LEMMA OneExecutorKept == IInv /\ [Next]_vars => OneExecutor'
<1>. SUFFICES ASSUME IInv, [Next]_vars, NEW x \in Executions, NEW e \in Executors,
                     NEW f \in Executors, job'[e] = x, job'[f] = x, e # f
              PROVE  FALSE
  BY DEF OneExecutor
<1>1. x # None
  BY NoneAssumption
<1>2. job[e] = x \/ job[f] = x
  BY <1>1, JobSteps
<1>3. x \in claimed
  BY <1>1, <1>2 DEF IInv, ExecutorsOK
<1>4. job[e] = x /\ job[f] = x
  BY <1>1, <1>3, JobSteps
<1>. QED
  BY <1>4 DEF IInv, OneExecutor

\* A file stays in one place.
LEMMA PlacedKept == IInv /\ [Next]_vars => Placed'
<1>. SUFFICES ASSUME IInv, [Next]_vars PROVE Placed'
  OBVIOUS
<1>0. /\ Placed
      /\ quarantine \in [Executions -> [Docs -> Inodes \cup {None}]]
      /\ files \in [Paths -> Inodes \cup {None}]
  BY DEF IInv, TypeOK, FilesTypeOK
<1>. USE <1>0, NoneAssumption DEF Placed
<1>1. ASSUME NEW e \in Executors, Rename(e) PROVE Placed'
  <2>1. CASE Move(e)
    <3>. DEFINE x == job[e]
                d == Action(e)
                p == SourceOf[d]
    <3>1. x \in Executions /\ at[e] \in 1..PlanLen(x)
      BY <1>1, LocalsOfInv DEF Rename, LocalInv, JobsOK, ExecutorsOK, AtAction, Callers
    <3>2. d \in Docs
      BY <3>1, PlanFacts DEF Action, PlannedAt
    <3>3. p \in Paths
      BY <3>2, FilesAssumption
    <3>4. /\ files[p] # None
          /\ quarantine' = [quarantine EXCEPT ![x][d] = files[p]]
          /\ files' = [files EXCEPT ![p] = None]
      BY <2>1 DEF Move
    <3>. HIDE DEF x, d, p
    <3>5. \A q \in Paths : files'[q] = IF q = p THEN None ELSE files[q]
      BY <3>3, <3>4
    <3>6. \A y \in Executions, b \in Docs :
             quarantine'[y][b] = IF y = x /\ b = d THEN files[p] ELSE quarantine[y][b]
      BY <3>1, <3>2, <3>4
    <3>. QED
      BY <3>3, <3>4, <3>5, <3>6
  <2>2. CASE RenameFails(e)
    BY <2>2 DEF RenameFails, NoFile, fileVars
  <2>. QED
    BY <1>1, <2>1, <2>2 DEF Rename
<1>2. ASSUME NEW p \in Paths, Remove(p) PROVE Placed'
  BY <1>2 DEF Remove, Touch
<1>3. ASSUME NEW p \in Paths, NEW i \in Inodes, Replace(p, i) PROVE Placed'
  BY <1>3 DEF Replace, Touch, InPlace
<1>4. ASSUME NEW p \in Paths, NEW c \in Contents, Write(p, c) PROVE Placed'
  BY <1>4 DEF Write, Touch
<1>. QED
  BY <1>1, <1>2, <1>3, <1>4, FileSteps

\* The executor stands at the first action without a recorded success.
LEMMA InOrderKept == IInv /\ [Next]_vars => InOrder'
<1>. SUFFICES ASSUME IInv, [Next]_vars, NEW e \in Executors, pc'[e] \in AtAction
              PROVE  \A n \in 1..PlanLen(job'[e]) :
                        /\ n < at'[e] => audit'[job'[e]][PlannedAt(job'[e], n)] = "SUCCESS"
                        /\ at'[e] <= n => audit'[job'[e]][PlannedAt(job'[e], n)] # "SUCCESS"
  BY DEF InOrder, PlanLen, PlannedAt
<1>0. LocalTypes /\ e \in Callers
  BY LocalsOfInv DEF LocalInv, Callers
<1>. DEFINE x == job[e]
<1>1. pc[e] # "idle" =>
         /\ x \in Executions /\ x # None
         /\ PlanLen(x) \in Nat \ {0}
         /\ \A n \in 1..PlanLen(x) : PlannedAt(x, n) \in Docs
         /\ \A m, n \in 1..PlanLen(x) : PlannedAt(x, m) = PlannedAt(x, n) => m = n
         /\ Planned(x) = {PlannedAt(x, n) : n \in 1..PlanLen(x)}
  BY <1>0, PlanFacts, NoneAssumption DEF IInv, JobsOK
<1>2. CASE /\ pc[e] \in AtAction /\ job'[e] = x /\ at'[e] = at[e]
           /\ pc[e] = "record" => pc'[e] = "record"
  <2>1. \A d \in Docs : audit'[x][d] = "SUCCESS" <=> audit[x][d] = "SUCCESS"
    <3>1. pc[e] # "idle"
      BY <1>2 DEF AtAction
    <3>2. ASSUME NEW d \in Docs, audit[x][d] # "SUCCESS", audit'[x][d] = "SUCCESS"
          PROVE  FALSE
      <4>1. PICK f \in Executors : Record(f) /\ job[f] = x
        BY <1>1, <3>1, <3>2, SuccessSteps
      <4>2. f = e
        BY <1>1, <3>1, <4>1 DEF IInv, OneExecutor
      <4>. QED
        BY <1>0, <1>2, <4>1, <4>2 DEF Record, Advance, Goto, LocalTypes
    <3>3. "SUCCESS" # None
      BY NoneAssumption DEF Results
    <3>. QED
      BY <1>1, <3>1, <3>2, <3>3, AuditOnce
  <2>. QED
    BY <1>1, <1>2, <2>1 DEF IInv, InOrder, AtAction
<1>3. CASE CheckFresh(e)
  <2>1. /\ pc[e] = "fresh" /\ at'[e] = 1 /\ job'[e] = x
        /\ \A d \in Planned(x) : audit'[x][d] = None
    BY <1>0, <1>3 DEF CheckFresh, Finish, Goto, NoRow, rowVars, LocalTypes, AtAction
  <2>2. None # "SUCCESS"
    BY NoneAssumption DEF Results
  <2>. QED
    BY <1>1, <2>1, <2>2
<1>4. CASE Record(e)
  <2>1. /\ pc[e] = "record" /\ job'[e] = x /\ at'[e] = at[e] + 1
        /\ result[e] = "SUCCESS" /\ audit[x][Action(e)] = None
        /\ Audit(x, Action(e), "SUCCESS")
    BY <1>0, <1>4 DEF Record, Advance, Goto, LocalTypes, AtAction
  <2>2. at[e] \in 1..PlanLen(x) /\ Action(e) = PlannedAt(x, at[e])
    BY <2>1 DEF IInv, ExecutorsOK, AtAction, Action, PlannedAt
  <2>3. \A d \in Docs : audit'[x][d] = IF d = Action(e) THEN "SUCCESS" ELSE audit[x][d]
    BY <1>1, <2>1 DEF Audit, IInv, TypeOK, RowsTypeOK
  <2>4. \A n \in 1..PlanLen(x) :
           /\ n < at[e] => audit[x][PlannedAt(x, n)] = "SUCCESS"
           /\ at[e] <= n => audit[x][PlannedAt(x, n)] # "SUCCESS"
    BY <2>1 DEF IInv, InOrder, AtAction
  <2>. QED
    BY <1>1, <2>1, <2>2, <2>3, <2>4
<1>5. ASSUME NEW y \in Executions, Claim(e, y) PROVE FALSE
  BY <1>0, <1>5 DEF Claim, Goto, LocalTypes, AtAction
<1>6. CASE RecordRest(e) \/ Complete(e) \/ Die(e)
  BY <1>0, <1>6 DEF RecordRest, Advance, Complete, Die, Finish, Goto, LocalTypes, AtAction
<1>7. CASE CheckAuth(e) \/ CheckPlan(e) \/ Pin(e) \/ Rename(e) \/ Verify(e) \/ Stumble(e)
  <2>1. /\ pc[e] \in AtAction \ {"record"} /\ job'[e] = x /\ at'[e] = at[e]
    BY <1>7 DEF CheckAuth, CheckPlan, Pin, Rename, Verify, Stumble, AtAction
  <2>. QED
    BY <1>2, <2>1
<1>8. CASE pc'[e] = pc[e] /\ job'[e] = job[e] /\ at'[e] = at[e]
  BY <1>2, <1>8
<1>. QED
  BY <1>3, <1>4, <1>5, <1>6, <1>7, <1>8, OwnSteps DEF Execute

\* Between the verification and its record nobody gets at the moved file.
LEMMA SuccessVerifiedKept == IInv /\ [Next]_vars => SuccessVerified'
<1>. SUFFICES ASSUME IInv, [Next]_vars, NEW e \in Executors, pc'[e] = "record",
                     result'[e] = "SUCCESS"
              PROVE  Exact(job[e], PlannedAt(job[e], at[e]))'
  BY DEF SuccessVerified
<1>0. LocalTypes /\ e \in Callers
  BY LocalsOfInv DEF LocalInv, Callers
<1>1. ASSUME pc[e] \in {"verify", "record"}
      PROVE  \E x \in Executions, d \in Docs :
                 x = job[e] /\ d = PlannedAt(x, at[e]) /\ x # None
  BY <1>0, <1>1, PlanFacts, NoneAssumption, SMTT(30)
     DEF IInv, JobsOK, ExecutorsOK, AtAction
<1>2. CASE Verify(e)
  <2>1. /\ pc[e] = "verify" /\ job'[e] = job[e] /\ at'[e] = at[e] /\ Verified(e)
        /\ UNCHANGED <<quarantine, content>>
    BY <1>0, <1>2 DEF Verify, Report, Goto, LocalTypes, NoFile, fileVars
  <2>2. pinned[e] # None
    BY <2>1, NoneAssumption DEF IInv, ExecutorsOK
  <2>. QED
    BY <2>1, <2>2 DEF Verified, Exact, Expected, PlannedAt, Action
<1>3. CASE pc'[e] = pc[e] /\ job'[e] = job[e] /\ at'[e] = at[e] /\ result'[e] = result[e]
  <2>0. PICK x \in Executions, d \in Docs :
                 x = job[e] /\ d = PlannedAt(x, at[e]) /\ x # None
    BY <1>1, <1>3
  <2>1. pc[e] = "record" /\ Exact(x, d)
    BY <1>3, <2>0 DEF IInv, SuccessVerified
  <2>2. ASSUME NEW f \in Executors, Rename(f), job[f] = x PROVE FALSE
    BY <2>0, <2>1, <2>2 DEF IInv, OneExecutor, Rename
  <2>3. Exact(x, d)'
    BY <2>1, <2>2, ExactKept
  <2>. QED
    BY <1>3, <2>0, <2>3 DEF Exact, PlannedAt, Expected
<1>4. CASE CheckFresh(e) \/ CheckAuth(e) \/ CheckPlan(e) \/ Pin(e) \/ Stumble(e)
  BY <1>0, <1>4 DEF CheckFresh, CheckAuth, CheckPlan, Pin, Stumble, Report, Finish, Goto,
      LocalTypes
<1>5. CASE Rename(e)
  BY <1>0, <1>5 DEF Rename, Move, RenameFails, Report, Goto, LocalTypes
<1>6. CASE Record(e) \/ RecordRest(e) \/ Complete(e) \/ Die(e)
  BY <1>0, <1>6 DEF Record, RecordRest, Advance, Complete, Die, Finish, Goto, LocalTypes
<1>7. ASSUME NEW y \in Executions, Claim(e, y) PROVE FALSE
  BY <1>0, <1>7 DEF Claim, Goto, LocalTypes
<1>. QED
  BY <1>2, <1>3, <1>4, <1>5, <1>6, <1>7, OwnSteps DEF Execute

\* A SUCCESS stays true.
LEMMA SuccessExactKept == IInv /\ [Next]_vars => SuccessExact'
<1>. SUFFICES ASSUME IInv, [Next]_vars, NEW x \in Executions, NEW d \in Planned(x),
                     audit'[x][d] = "SUCCESS"
              PROVE  Exact(x, d)'
  BY DEF SuccessExact, Exact, Planned, Expected
<1>1. d \in Docs /\ x # None
  BY PlanFacts, NoneAssumption
<1>2. CASE audit[x][d] = "SUCCESS"
  <2>1. Exact(x, d)
    BY <1>2 DEF IInv, SuccessExact, Exact
  <2>2. ASSUME NEW e \in Executors, Rename(e), job[e] = x, Action(e) = d PROVE FALSE
    <3>1. pc[e] = "rename" /\ at[e] \in 1..PlanLen(x) /\ PlannedAt(x, at[e]) = d
      BY <2>2 DEF Rename, IInv, ExecutorsOK, AtAction, Action, PlannedAt
    <3>2. at[e] <= at[e]
      BY <3>1, PlanFacts
    <3>. QED
      BY <1>2, <2>2, <3>1, <3>2 DEF IInv, InOrder, AtAction
  <2>. QED
    BY <1>1, <2>1, <2>2, ExactKept
<1>3. CASE audit[x][d] # "SUCCESS"
  <2>1. PICK e \in Executors :
           Record(e) /\ job[e] = x /\ Action(e) = d /\ result[e] = "SUCCESS"
    BY <1>1, <1>3, SuccessSteps
  <2>2. Exact(x, d)
    BY <2>1 DEF Record, Action, PlannedAt, IInv, SuccessVerified
  <2>. QED
    BY <2>1, <2>2 DEF Record, NoFile, fileVars, Exact, Expected
<1>. QED
  BY <1>2, <1>3

\* A file moves when all before it have been recorded as moved.
LEMMA StopsKept == IInv /\ [Next]_vars => StopsAtFirstFailure'
<1>. SUFFICES ASSUME IInv, [Next]_vars, NEW x \in Executions, NEW m \in 1..PlanLen(x),
                     NEW n \in 1..PlanLen(x), m < n, quarantine'[x][PlannedAt(x, n)] # None
              PROVE  audit'[x][PlannedAt(x, m)] = "SUCCESS"
  BY DEF StopsAtFirstFailure, PlanLen, PlannedAt
<1>1. /\ PlannedAt(x, m) \in Docs /\ PlannedAt(x, n) \in Docs
      /\ \A k, l \in 1..PlanLen(x) : PlannedAt(x, k) = PlannedAt(x, l) => k = l
  BY PlanFacts
<1>2. audit[x][PlannedAt(x, m)] = "SUCCESS"
  <2>1. CASE quarantine[x][PlannedAt(x, n)] # None
    BY <2>1 DEF IInv, StopsAtFirstFailure, PlanLen, PlannedAt
  <2>2. CASE quarantine[x][PlannedAt(x, n)] = None
    <3>1. PICK e \in Executors : Rename(e) /\ job[e] = x /\ Action(e) = PlannedAt(x, n)
      BY <1>1, <2>2, QuarantineSteps
    <3>2. pc[e] = "rename" /\ at[e] \in 1..PlanLen(x) /\ Action(e) = PlannedAt(x, at[e])
      BY <3>1 DEF Rename, IInv, ExecutorsOK, AtAction, Action, PlannedAt
    <3>3. at[e] = n
      BY <1>1, <3>1, <3>2
    <3>. QED
      BY <3>1, <3>2, <3>3 DEF IInv, InOrder, AtAction
  <2>. QED
    BY <2>1, <2>2
<1>3. "SUCCESS" # None
  BY NoneAssumption DEF Results
<1>. QED
  BY <1>1, <1>2, <1>3, AuditOnce

\* Once all audits are there, what they amount to is settled.
LEMMA OutcomeKept ==
    ASSUME IInv, [Next]_vars, NEW x \in Executions, AllAudited(x)
    PROVE  AllAudited(x)' /\ Outcome(x)' = Outcome(x)
<1>1. \A d \in Planned(x) : audit'[x][d] = audit[x][d] /\ audit[x][d] # None
  BY PlanFacts, AuditOnce DEF AllAudited
<1>2. Planned(x)' = Planned(x)
  BY DEF Planned
<1>3. {audit'[x][d] : d \in Planned(x)} = {audit[x][d] : d \in Planned(x)}
  BY <1>1
<1>4. AllAudited(x)'
  BY <1>1, <1>2 DEF AllAudited
<1>5. Outcome(x)' = Outcome(x)
  BY <1>2, <1>3 DEF Outcome
<1>. QED
  BY <1>4, <1>5

\* A final status is only written over by itself.
LEMMA FinalStays ==
    ASSUME IInv, [Next]_vars, NEW x \in Executions, status[x] \in FinalStatus
    PROVE  status'[x] = status[x]
<1>0. status \in [Executions -> ExecutionStatus] /\ status[x] \notin {"ABSENT", "RUNNING"}
  BY DEF IInv, TypeOK, RowsTypeOK, FinalStatus
<1>1. status[x] = Outcome(x)
  BY DEF IInv, FinalDerived
<1>2. ASSUME NEW c \in Callers, Complete(c) PROVE status'[x] = status[x]
  BY <1>0, <1>1, <1>2 DEF Complete, Finalize
<1>3. ASSUME NEW y \in Executions, Start(y) \/ CompleteByHand(y) PROVE status'[x] = status[x]
  BY <1>0, <1>3 DEF Start, CompleteByHand, Finalize
<1>. QED
  BY <1>2, <1>3, StatusSteps

\* A final status keeps agreeing with the audits.
LEMMA FinalDerivedKept == IInv /\ [Next]_vars => FinalDerived'
<1>. SUFFICES ASSUME IInv, [Next]_vars, NEW x \in Executions, status'[x] \in FinalStatus
              PROVE  AllAudited(x)' /\ status'[x] = Outcome(x)'
  BY DEF FinalDerived
<1>0. status \in [Executions -> ExecutionStatus]
  BY DEF IInv, TypeOK, RowsTypeOK
<1>1. CASE status[x] \in FinalStatus
  BY <1>1, FinalStays, OutcomeKept DEF IInv, FinalDerived
<1>2. CASE status[x] \notin FinalStatus
  <2>1. ASSUME NEW c \in Callers, Complete(c) PROVE AllAudited(x) /\ status'[x] = Outcome(x)
    BY <1>0, <1>2, <2>1 DEF Complete, Finalize
  <2>2. ASSUME NEW y \in Executions, Start(y) PROVE FALSE
    BY <1>0, <1>2, <2>2 DEF Start, FinalStatus
  <2>3. ASSUME NEW y \in Executions, CompleteByHand(y)
        PROVE  AllAudited(x) /\ status'[x] = Outcome(x)
    BY <1>0, <1>2, <2>3 DEF CompleteByHand, Finalize
  <2>4. AllAudited(x) /\ status'[x] = Outcome(x)
    BY <1>2, <2>1, <2>2, <2>3, StatusSteps
  <2>. QED
    BY <2>4, OutcomeKept
<1>. QED
  BY <1>1, <1>2

-----------------------------------------------------------------------------
(* What the theorems on revocation, audits and copies rest on              *)

\* Nothing of a plan is in quarantine from the action on that its executor has not
\* yet moved: none before a claim, and none that a denial is about to be recorded of.
AheadUntouched ==
    /\ \A x \in Executions \ claimed, d \in Docs : quarantine[x][d] = None
    /\ \A e \in Executors :
          /\ pc[e] = "fresh" => \A d \in Docs : quarantine[job[e]][d] = None
          /\ pc[e] \in AtAction \cup {"rest"} =>
                \A n \in 1..PlanLen(job[e]) :
                    at[e] < n => quarantine[job[e]][PlannedAt(job[e], n)] = None
          /\ \/ pc[e] \in {"auth", "plan", "pin", "rename", "rest"}
             \/ pc[e] = "record" /\ result[e] \in NothingHappened
             => quarantine[job[e]][PlannedAt(job[e], at[e])] = None

\* A call works for an execution of the scenario, and so do the rows.
InScope ==
    /\ \A x \in Executions : auth[x] # "ABSENT" => x \in scenario.executions
    /\ \A x \in Executions : status[x] # "ABSENT" => x \in scenario.executions
    /\ \A c \in Callers : pc[c] # "idle" => c \in scenario.callers /\ job[c] \in scenario.executions

\* After a move that came too late the executor does not get to another one.
LateOnce ==
    \A x \in Executions : lateMoves[x] > 0 =>
        /\ lateMoves[x] = 1
        /\ auth[x] = "REVOKED"
        /\ \A e \in Executors : job[e] = x => pc[e] \notin {"plan", "pin", "rename"}

Patient == scenario.disturbances \cap {"haste", "replace"} = {}

\* Executor and recovery take turns, a file that was moved is gone from its
\* path, and what is about to be moved has no result yet.
TurnsTaken ==
    /\ \A e \in Executors, r \in Recoverers : job[e] # None => job[r] # job[e]
    /\ \A x \in Executions, d \in Docs :
          quarantine[x][d] # None => files[SourceOf[d]] = None
    /\ \A e \in Executors : pc[e] \in AtAction =>
          \A n \in 1..PlanLen(job[e]) :
              at[e] <= n => audit[job[e]][PlannedAt(job[e], n)] = None
    /\ \A r \in Recoverers :
          pc[r] = "recordObserved" /\ result[r] \in NothingHappened
          => quarantine[job[r]][PlannedAt(job[r], at[r])] = None

DenialInv == Patient => TurnsTaken /\ DenialIsTrue

\* Where no other program was: files hold what they held, and one that is gone
\* from its path lies in quarantine.
FilesKept ==
    /\ content = Held
    /\ \A p \in Paths : files[p] # None => files[p] = FileAt[p]
    /\ \A p \in Paths : files[p] = None /\ FileAt[p] # None =>
          \E y \in Executions, b \in Docs : quarantine[y][b] = FileAt[p]
    /\ \A x \in Executions, d \in Docs : quarantine[x][d] # None => files[SourceOf[d]] = None

\* An action without a known outcome that an executor may still perform has no file.
OpenIsGone ==
    /\ \A e \in Executors : pc[e] \in AtAction =>
          \A n \in 1..PlanLen(job[e]) :
              at[e] <= n /\ audit[job[e]][PlannedAt(job[e], n)] = "UNKNOWN"
              => files[SourceOf[PlannedAt(job[e], n)]] = None
    /\ \A r \in Recoverers :
          pc[r] = "recordObserved" /\ result[r] = "UNKNOWN"
          => files[SourceOf[PlannedAt(job[r], at[r])]] = None

ReconciledOpen ==
    \A x \in Executions, d \in Docs : reconciled[x][d] # None => audit[x][d] = "UNKNOWN"

QuietInv == touches = 0 => FilesKept /\ OpenIsGone /\ ReconciliationTruthful

\* The canonical file of a plan is there from its check to the move.
CanonicalThere ==
    \A e \in Executors : pc[e] \in {"pin", "rename"} =>
        files[SourceOf[Canonical[PlanOf[job[e]]]]] # None

\* Where nobody else moves files, or all keep the same one, what a plan keeps has a copy.
CopyInv ==
    touches = 0 /\ TrueCopies /\ NoRivalPlans =>
        CanonicalThere /\ LastCopySurvives


\* The control flow of execute, one step of e.
Flow(e) ==
    \/ pc'[e] = "idle" /\ job'[e] = None
    \/ pc[e] = "idle" /\ pc'[e] = "fresh" /\ job'[e] \in Executions \ claimed
    \/ /\ job'[e] = job[e]
       /\ \/ /\ pc[e] = "fresh" /\ pc'[e] = "auth" /\ at'[e] = 1
             /\ \A d \in Planned(job[e]) : audit[job[e]][d] = None
          \/ /\ at'[e] = at[e]
             /\ \/ pc[e] = "auth" /\ pc'[e] = "plan" /\ auth[job[e]] = "AUTHORIZED"
                \/ pc[e] = "plan" /\ pc'[e] = "pin" /\ CanonicalValid(job[e])
                \/ pc[e] = "pin" /\ pc'[e] = "rename"
                \/ pc[e] = "rename" /\ pc'[e] = "verify" /\ Move(e)
                \/ /\ pc[e] \in {"auth", "plan", "pin", "rename"} /\ pc'[e] = "record"
                   /\ result'[e] \in {"PRECONDITION_FAILED", "FAILED", "UNKNOWN"}
                \/ /\ pc[e] = "verify" /\ pc'[e] = "record"
                   /\ result'[e] \in {"SUCCESS", "UNKNOWN"}
          \/ /\ at'[e] = at[e] + 1
             /\ \/ /\ pc[e] = "record" /\ pc'[e] = "auth" /\ at[e] # PlanLen(job[e])
                   /\ result[e] = "SUCCESS" /\ audit[job[e]][Action(e)] = None
                \/ pc[e] \in {"record", "rest"} /\ pc'[e] = "rest" /\ at[e] # PlanLen(job[e])
                \/ pc[e] \in {"record", "rest"} /\ pc'[e] = "complete"

\* A call that waits, or that others leave alone.
Still(c) ==
    /\ pc'[c] = pc[c] /\ job'[c] = job[c] /\ at'[c] = at[c]
    /\ pinned'[c] = pinned[c] /\ result'[c] = result[c]

\* An executor does nothing else.
LEMMA ExecutorFlow ==
    ASSUME IInv, [Next]_vars, NEW e \in Executors
    PROVE  Still(e) \/ Flow(e)
<1>0. LocalTypes /\ e \in Callers
  BY LocalsOfInv DEF LocalInv, Callers
<1>. USE <1>0 DEF LocalTypes, Goto, Report, Advance, Finish, Flow, PlanLen
<1>1. ASSUME NEW x \in Executions, Claim(e, x) PROVE Flow(e)
  BY <1>1 DEF Claim
<1>2. CASE CheckFresh(e)
  BY <1>2 DEF CheckFresh
<1>3. CASE CheckAuth(e) \/ CheckPlan(e) \/ Pin(e)
  BY <1>3 DEF CheckAuth, CheckPlan, Pin
<1>4. CASE Rename(e)
  BY <1>4 DEF Rename, Move, RenameFails
<1>5. CASE Verify(e) \/ Stumble(e)
  BY <1>5 DEF Verify, Stumble
<1>6. CASE Record(e) \/ RecordRest(e)
  BY <1>6 DEF Record, RecordRest
<1>7. CASE Complete(e) \/ Die(e)
  BY <1>7 DEF Complete, Die
<1>. QED
  BY <1>1, <1>2, <1>3, <1>4, <1>5, <1>6, <1>7, OwnSteps DEF Execute, Still

\* Where a move is made from, and to.
LEMMA MoveFacts ==
    ASSUME IInv, NEW e \in Executors, Rename(e), Move(e)
    PROVE  \E x \in Executions, d \in Docs, p \in Paths :
              /\ x = job[e] /\ d = Action(e) /\ p = SourceOf[d]
              /\ at[e] \in 1..PlanLen(x) /\ d = PlannedAt(x, at[e]) /\ d \in Planned(x)
              /\ pc[e] = "rename" /\ pc'[e] = "verify" /\ job' = job /\ at' = at
              /\ \A c \in Callers \ {e} : pc'[c] = pc[c]
              /\ files[p] # None
              /\ \A q \in Paths : files'[q] = IF q = p THEN None ELSE files[q]
              /\ \A y \in Executions, b \in Docs :
                    quarantine'[y][b] = IF y = x /\ b = d THEN files[p] ELSE quarantine[y][b]
              /\ UNCHANGED <<content, touches, rowVars>>
<1>1. /\ files \in [Paths -> Inodes \cup {None}]
      /\ quarantine \in [Executions -> [Docs -> Inodes \cup {None}]]
      /\ LocalTypes /\ e \in Callers
  BY LocalsOfInv DEF IInv, TypeOK, FilesTypeOK, LocalInv, Callers
<1>2. pc[e] = "rename" /\ job[e] \in Executions /\ at[e] \in 1..PlanLen(job[e])
  BY LocalsOfInv DEF Rename, LocalInv, JobsOK, ExecutorsOK, AtAction, Callers
<1>. DEFINE x == job[e]
            d == Action(e)
            p == SourceOf[d]
<1>3. d \in Docs /\ d = PlannedAt(x, at[e]) /\ d \in Planned(x)
  BY <1>2, PlanFacts DEF Action, PlannedAt
<1>4. p \in Paths
  BY <1>3, FilesAssumption
<1>5. /\ pc' = [pc EXCEPT ![e] = "verify"] /\ UNCHANGED <<job, at>>
      /\ UNCHANGED <<content, touches, rowVars>>
      /\ files[p] # None
      /\ quarantine' = [quarantine EXCEPT ![x][d] = files[p]]
      /\ files' = [files EXCEPT ![p] = None]
  BY DEF Rename, Move, Goto, NoRow
<1>6. x \in Executions
  BY <1>2
<1>. HIDE DEF x, d, p
<1>7. \A q \in Paths : files'[q] = IF q = p THEN None ELSE files[q]
  BY <1>1, <1>4, <1>5
<1>8. \A y \in Executions, b \in Docs :
         quarantine'[y][b] = IF y = x /\ b = d THEN files[p] ELSE quarantine[y][b]
  BY <1>1, <1>3, <1>5, <1>6
<1>9. pc'[e] = "verify" /\ \A c \in Callers \ {e} : pc'[c] = pc[c]
  BY <1>1, <1>5 DEF LocalTypes
<1>. QED
  BY <1>2, <1>3, <1>4, <1>5, <1>6, <1>7, <1>8, <1>9 DEF x, d, p

\* Moves fill the slots of what their executor stands at, and nobody else fills one.
LEMMA AheadKept == IInv /\ AheadUntouched /\ [Next]_vars => AheadUntouched'
<1>. SUFFICES ASSUME IInv, AheadUntouched, [Next]_vars PROVE AheadUntouched'
  OBVIOUS
<1>0. /\ LocalTypes
      /\ \A e \in Executors : /\ job[e] # None => job[e] \in claimed
                              /\ job[e] \in Executions \cup {None}
                              /\ pc[e] # "idle" => job[e] \in Executions
  BY LocalsOfInv DEF LocalInv, LocalTypes, ExecutorsOK, JobsOK, Callers
<1>1. \A x \in Executions, d \in Docs : quarantine'[x][d] # quarantine[x][d] =>
         \E e \in Executors : Rename(e) /\ job[e] = x /\ Action(e) = d
  BY QuarantineSteps
<1>2. ASSUME NEW x \in Executions \ claimed', NEW d \in Docs PROVE quarantine'[x][d] = None
  <2>1. x \notin claimed
    BY ClaimSteps DEF Claim
  <2>2. quarantine[x][d] = None
    BY <2>1 DEF AheadUntouched
  <2>. QED
    BY <1>0, <1>1, <2>1, <2>2, NoneAssumption
<1>3. ASSUME NEW e \in Executors
      PROVE  /\ pc'[e] = "fresh" => \A d \in Docs : quarantine'[job'[e]][d] = None
             /\ pc'[e] \in AtAction \cup {"rest"} =>
                   \A n \in 1..PlanLen(job'[e]) :
                      at'[e] < n => quarantine'[job'[e]][PlannedAt(job'[e], n)] = None
             /\ \/ pc'[e] \in {"auth", "plan", "pin", "rename", "rest"}
                \/ pc'[e] = "record" /\ result'[e] \in NothingHappened
                => quarantine'[job'[e]][PlannedAt(job'[e], at'[e])] = None
  <2>. DEFINE x == job[e]
  <2>1. ASSUME pc[e] # "idle"
        PROVE  /\ x \in Executions /\ x # None
               /\ PlanLen(x) \in Nat \ {0}
               /\ \A n \in 1..PlanLen(x) : PlannedAt(x, n) \in Docs
               /\ \A m, n \in 1..PlanLen(x) : PlannedAt(x, m) = PlannedAt(x, n) => m = n
               /\ pc[e] \in AtAction \cup {"rest"} => at[e] \in 1..PlanLen(x) /\ Action(e) = PlannedAt(x, at[e])
    BY <1>0, <2>1, PlanFacts, NoneAssumption DEF IInv, ExecutorsOK, Action, PlannedAt
  <2>2. ASSUME NEW d \in Docs, pc[e] # "idle", quarantine'[x][d] # quarantine[x][d]
        PROVE  Action(e) = d /\ pc[e] = "rename" /\ pc'[e] = "verify"
    <3>1. PICK f \in Executors : Rename(f) /\ job[f] = x /\ Action(f) = d
      BY <1>1, <2>1, <2>2
    <3>2. f = e
      BY <2>1, <2>2, <3>1 DEF IInv, OneExecutor
    <3>3. Move(e)
      BY <2>2, <3>1, <3>2 DEF Rename, RenameFails, NoFile, fileVars
    <3>. QED
      BY <1>0, <3>1, <3>2, <3>3 DEF Rename, Move, Goto, LocalTypes, Callers
  <2>3. /\ pc[e] = "fresh" => \A d \in Docs : quarantine[x][d] = None
        /\ pc[e] \in AtAction \cup {"rest"} =>
              \A n \in 1..PlanLen(x) : at[e] < n => quarantine[x][PlannedAt(x, n)] = None
        /\ \/ pc[e] \in {"auth", "plan", "pin", "rename", "rest"}
           \/ pc[e] = "record" /\ result[e] \in NothingHappened
           => quarantine[x][PlannedAt(x, at[e])] = None
    BY DEF AheadUntouched
  <2>4. CASE Still(e)
    BY <2>1, <2>2, <2>3, <2>4 DEF Still, AtAction
  <2>5. CASE pc'[e] = "idle"
    BY <2>5 DEF AtAction
  <2>6. CASE pc[e] = "idle" /\ pc'[e] = "fresh" /\ job'[e] \in Executions \ claimed
    <3>1. ASSUME NEW d \in Docs PROVE quarantine'[job'[e]][d] = None
      <4>1. quarantine[job'[e]][d] = None
        BY <2>6 DEF AheadUntouched
      <4>. QED
        BY <1>0, <1>1, <2>6, <4>1, NoneAssumption
    <3>. QED
      BY <2>6, <3>1 DEF AtAction
  <2>7. CASE job'[e] = x /\ pc[e] # "idle" /\ Flow(e) /\ at'[e] = at[e] /\ pc[e] # "fresh"
    BY <2>1, <2>2, <2>3, <2>7 DEF Flow, AtAction, NothingHappened
  <2>8. CASE job'[e] = x /\ pc[e] = "fresh" /\ pc'[e] = "auth" /\ at'[e] = 1
    BY <2>1, <2>2, <2>3, <2>8 DEF AtAction
  <2>9. CASE job'[e] = x /\ at'[e] = at[e] + 1 /\ pc[e] \in {"record", "rest"}
             /\ pc'[e] \in {"auth", "rest", "complete"}
             /\ (pc'[e] # "complete" => at[e] # PlanLen(x))
    BY <2>1, <2>2, <2>3, <2>9 DEF AtAction
  <2>. QED
    BY <2>4, <2>5, <2>6, <2>7, <2>8, <2>9, ExecutorFlow DEF Flow
<1>. QED
  BY <1>2, <1>3 DEF AheadUntouched, PlanLen, PlannedAt

-----------------------------------------------------------------------------
(* Revocations                                                             *)

\* A late move is a move.
LEMMA LateSteps ==
    ASSUME [Next]_vars, lateMoves' # lateMoves
    PROVE  \E e \in Executors : Rename(e) /\ Move(e)
<1>. USE DEF NoFile, fileVars
<1>1. ASSUME NEW e \in Executors, Execute(e), ~Rename(e)
      PROVE  UNCHANGED lateMoves
  BY <1>1 DEF Execute, Claim, CheckFresh, CheckAuth, CheckPlan, Pin, Verify, Stumble,
      Record, RecordRest
<1>2. ASSUME NEW e \in Executors, Rename(e), ~Move(e) PROVE UNCHANGED lateMoves
  BY <1>2 DEF Rename, RenameFails
<1>3. ASSUME NEW r \in Recoverers, Recover(r) PROVE UNCHANGED lateMoves
  BY <1>3 DEF Recover, ClaimRecovery, Survey, Observe, RecordObserved
<1>4. ASSUME NEW c \in Callers, Complete(c) \/ Die(c) PROVE UNCHANGED lateMoves
  BY <1>4 DEF Complete, Die
<1>5. ASSUME Operators PROVE UNCHANGED lateMoves
  BY <1>5 DEF Operators, AskAuthorize, Grant, Revoke, Start, CompleteByHand, Reconcile
<1>6. ASSUME OtherPrograms PROVE UNCHANGED lateMoves
  BY <1>6 DEF OtherPrograms, Remove, Replace, Write, Touch
<1>. QED
  BY <1>1, <1>2, <1>3, <1>4, <1>5, <1>6 DEF Next, vars

\* Authorizations are written by operators only.
LEMMA AuthSteps ==
    ASSUME [Next]_vars
    PROVE  UNCHANGED auth \/ \E x \in Executions : AskAuthorize(x) \/ Grant(x) \/ Revoke(x)
<1>. USE DEF NoRow, rowVars
<1>1. ASSUME NEW e \in Executors, Execute(e) PROVE UNCHANGED auth
  BY <1>1 DEF Execute, Claim, CheckFresh, CheckAuth, CheckPlan, Pin, Rename, Verify,
      Stumble, Record, RecordRest
<1>2. ASSUME NEW r \in Recoverers, Recover(r) PROVE UNCHANGED auth
  BY <1>2 DEF Recover, ClaimRecovery, Survey, Observe, RecordObserved
<1>3. ASSUME NEW c \in Callers, Complete(c) \/ Die(c) PROVE UNCHANGED auth
  BY <1>3 DEF Complete, Die
<1>4. ASSUME NEW x \in Executions,
             Start(x) \/ CompleteByHand(x) \/ \E d \in Planned(x), r \in Reconcilable : Reconcile(x, d, r)
      PROVE  UNCHANGED auth
  BY <1>4 DEF Start, CompleteByHand, Reconcile
<1>5. ASSUME OtherPrograms PROVE UNCHANGED auth
  BY <1>5 DEF OtherPrograms, Remove, Replace, Write, Touch
<1>. QED
  BY <1>1, <1>2, <1>3, <1>4, <1>5 DEF Next, Operators, vars

\* A call takes up an execution that was started, and keeps it.
LEMMA JobOrigin ==
    ASSUME IInv, [Next]_vars, NEW c \in Callers, pc'[c] # "idle"
    PROVE  \/ pc[c] # "idle" /\ job'[c] = job[c]
           \/ c \in scenario.callers /\ job'[c] \in Executions /\ status[job'[c]] = "RUNNING"
<1>0. LocalTypes
  BY LocalsOfInv DEF LocalInv
<1>. USE <1>0 DEF LocalTypes, Goto, Report, Advance, Finish
<1>1. ASSUME NEW e \in Executors, Execute(e)
      PROVE  \/ pc[c] # "idle" /\ job'[c] = job[c]
             \/ c \in scenario.callers /\ job'[c] \in Executions /\ status[job'[c]] = "RUNNING"
  <2>1. ASSUME NEW x \in Executions, Claim(e, x)
        PROVE  \/ pc[c] # "idle" /\ job'[c] = job[c]
               \/ c \in scenario.callers /\ job'[c] \in Executions /\ status[job'[c]] = "RUNNING"
    BY <2>1 DEF Claim, Callers
  <2>. QED
    BY <1>1, <2>1 DEF Execute, CheckFresh, CheckAuth, CheckPlan, Pin, Rename, Move,
        RenameFails, Verify, Stumble, Record, RecordRest, Callers
<1>2. ASSUME NEW r \in Recoverers, Recover(r)
      PROVE  \/ pc[c] # "idle" /\ job'[c] = job[c]
             \/ c \in scenario.callers /\ job'[c] \in Executions /\ status[job'[c]] = "RUNNING"
  BY <1>2 DEF Recover, ClaimRecovery, Survey, Observe, RecordObserved, Callers
<1>3. ASSUME NEW b \in Callers, Complete(b) \/ Die(b)
      PROVE  pc[c] # "idle" /\ job'[c] = job[c]
  BY <1>3 DEF Complete, Die
<1>4. CASE UNCHANGED callVars
  BY <1>4 DEF callVars
<1>. QED
  BY <1>1, <1>2, <1>3, <1>4, CallSteps

\* Nothing happens to an execution outside the scenario.
LEMMA ScopeKept == IInv /\ InScope /\ [Next]_vars => InScope'
<1>. SUFFICES ASSUME IInv, InScope, [Next]_vars PROVE InScope'
  OBVIOUS
<1>0. /\ scenario' = scenario
      /\ auth \in [Executions -> AuthStates] /\ status \in [Executions -> ExecutionStatus]
  BY DEF Next, vars, IInv, TypeOK, RowsTypeOK
<1>1. ASSUME NEW x \in Executions, auth'[x] # "ABSENT" PROVE x \in scenario.executions
  BY <1>0, <1>1, AuthSteps DEF AskAuthorize, Grant, Revoke, InScope
<1>2. ASSUME NEW x \in Executions, status'[x] # "ABSENT" PROVE x \in scenario.executions
  <2>1. ASSUME NEW c \in Callers, Complete(c) PROVE x \in scenario.executions
    BY <1>0, <1>2, <2>1 DEF Complete, Finalize, InScope
  <2>2. ASSUME NEW y \in Executions, Start(y) \/ CompleteByHand(y)
        PROVE  x \in scenario.executions
    BY <1>0, <1>2, <2>2 DEF Start, CompleteByHand, Finalize, InScope
  <2>. QED
    BY <1>2, <2>1, <2>2, StatusSteps DEF InScope
<1>3. ASSUME NEW c \in Callers, pc'[c] # "idle"
      PROVE  c \in scenario.callers /\ job'[c] \in scenario.executions
  BY <1>3, JobOrigin DEF InScope
<1>. QED
  BY <1>0, <1>1, <1>2, <1>3 DEF InScope

\* The executor whose move came too late has not checked an authorization since.
LEMMA LateKept == IInv /\ LateOnce /\ [Next]_vars => LateOnce'
<1>. SUFFICES ASSUME IInv, LateOnce, [Next]_vars, NEW x \in Executions, lateMoves'[x] > 0
              PROVE  /\ lateMoves'[x] = 1
                     /\ auth'[x] = "REVOKED"
                     /\ \A e \in Executors : job'[e] = x => pc'[e] \notin {"plan", "pin", "rename"}
  BY DEF LateOnce
<1>0. /\ lateMoves \in [Executions -> Nat] /\ auth \in [Executions -> AuthStates]
      /\ LocalTypes /\ Executors \subseteq Callers
  BY LocalsOfInv DEF IInv, TypeOK, CallsTypeOK, RowsTypeOK, LocalInv, Callers
<1>1. auth[x] = "REVOKED" => auth'[x] = "REVOKED"
  BY <1>0, AuthSteps DEF AskAuthorize, Grant, Revoke
<1>2. CASE lateMoves'[x] = lateMoves[x]
  <2>1. lateMoves[x] = 1 /\ auth[x] = "REVOKED"
    BY <1>2 DEF LateOnce
  <2>2. ASSUME NEW e \in Executors, job'[e] = x PROVE pc'[e] \notin {"plan", "pin", "rename"}
    <3>1. job[e] = x => pc[e] \notin {"plan", "pin", "rename"}
      BY <1>2 DEF LateOnce
    <3>. QED
      BY <2>1, <2>2, <3>1, ExecutorFlow, NoneAssumption DEF Still, Flow
  <2>. QED
    BY <1>1, <1>2, <2>1, <2>2
<1>3. CASE lateMoves'[x] # lateMoves[x]
  <2>1. PICK e \in Executors : Rename(e) /\ Move(e)
    BY <1>3, LateSteps
  <2>2. /\ job[e] = x /\ auth[x] = "REVOKED" /\ lateMoves'[x] = lateMoves[x] + 1
    BY <1>0, <1>3, <2>1 DEF Move
  <2>3. pc[e] = "rename" /\ pc'[e] = "verify" /\ job' = job
        /\ \A c \in Callers \ {e} : pc'[c] = pc[c]
    BY <2>1, MoveFacts
  <2>4. lateMoves[x] = 0
    BY <1>0, <2>2, <2>3 DEF LateOnce
  <2>5. ASSUME NEW f \in Executors, job'[f] = x PROVE f = e
    BY <2>2, <2>3, <2>5 DEF IInv, OneExecutor
  <2>. QED
    BY <1>1, <2>2, <2>3, <2>4, <2>5
<1>. QED
  BY <1>2, <1>3

-----------------------------------------------------------------------------
(* Audits                                                                  *)

\* Who takes an execution has been given it.
LEMMA JobTaken ==
    ASSUME IInv, [Next]_vars, NEW c \in Callers, job'[c] # None, job'[c] # job[c]
    PROVE  \E x \in Executions :
              /\ job'[c] = x /\ \A b \in Callers \ {c} : job'[b] = job[b]
              /\ \/ c \in Executors /\ ~Excluded(x, Recoverers)
                 \/ c \in Recoverers /\ ~Excluded(x, Executors)
<1>0. LocalTypes
  BY LocalsOfInv DEF LocalInv
<1>. USE <1>0 DEF LocalTypes, Goto, Report, Advance, Finish
<1>1. ASSUME NEW e \in Executors, Execute(e) PROVE e = c /\ \E x \in Executions : Claim(e, x)
  BY <1>1 DEF Execute, Claim, CheckFresh, CheckAuth, CheckPlan, Pin, Rename, Move,
      RenameFails, Verify, Stumble, Record, RecordRest, Callers
<1>2. ASSUME NEW r \in Recoverers, Recover(r)
      PROVE  r = c /\ \E x \in Executions : ClaimRecovery(r, x)
  BY <1>2 DEF Recover, ClaimRecovery, Survey, Observe, RecordObserved, Callers
<1>3. ASSUME NEW b \in Callers, Complete(b) \/ Die(b) PROVE FALSE
  BY <1>3 DEF Complete, Die
<1>4. (\E x \in Executions : c \in Executors /\ Claim(c, x))
      \/ (\E x \in Executions : c \in Recoverers /\ ClaimRecovery(c, x))
  BY <1>1, <1>2, <1>3, CallSteps DEF callVars
<1>. QED
  BY <1>4 DEF Claim, ClaimRecovery, Callers

\* An audit is written by the one who has the execution, at the action he stands at.
LEMMA AuditWriter ==
    ASSUME IInv, [Next]_vars, NEW x \in Executions, NEW d \in Docs, audit'[x][d] # audit[x][d]
    PROVE  /\ audit[x][d] = None
           /\ \/ \E e \in Executors :
                    /\ job[e] = x /\ Action(e) = d
                    /\ \/ Record(e) /\ audit'[x][d] = result[e]
                       \/ RecordRest(e) /\ audit'[x][d] = "NOT_ATTEMPTED"
              \/ \E r \in Recoverers :
                    /\ job[r] = x /\ Action(r) = d
                    /\ RecordObserved(r) /\ audit'[x][d] = result[r]
<1>0. audit \in [Executions -> [Docs -> Results \cup {None}]]
  BY DEF IInv, TypeOK, RowsTypeOK
<1>1. ASSUME NEW y, NEW b, NEW r, Audit(y, b, r)
      PROVE  y = x /\ b = d /\ audit[x][d] = None /\ audit'[x][d] = r
  BY <1>0, <1>1 DEF Audit
<1>2. ASSUME NEW e \in Executors, Record(e) PROVE Audit(job[e], Action(e), result[e])
  BY <1>2 DEF Record
<1>3. ASSUME NEW e \in Executors, RecordRest(e)
      PROVE  Audit(job[e], Action(e), "NOT_ATTEMPTED")
  BY <1>3 DEF RecordRest
<1>4. ASSUME NEW r \in Recoverers, RecordObserved(r)
      PROVE  Audit(job[r], Action(r), result[r])
  BY <1>4 DEF RecordObserved
<1>. QED
  BY <1>1, <1>2, <1>3, <1>4, AuditSteps

\* Who writes an audit moves nothing.
LEMMA AuditsApart ==
    ASSUME [Next]_vars, audit' # audit
    PROVE  UNCHANGED <<files, quarantine, content, reconciled, touches>>
<1>. USE DEF NoFile, fileVars
<1>. QED
  BY AuditSteps DEF Record, RecordRest, RecordObserved

\* What a recovery is about to record it has just seen.
LEMMA RecovererFlow ==
    ASSUME IInv, [Next]_vars, NEW r \in Recoverers, pc'[r] = "recordObserved"
    PROVE  \/ Still(r) /\ pc[r] = "recordObserved"
           \/ \E d \in Planned(job[r]) :
                 /\ pc[r] = "observe" /\ job'[r] = job[r] /\ job[r] \in Executions
                 /\ PlannedAt(job[r], at'[r]) = d
                 /\ result'[r] = IF Unchanged(d) THEN "NOT_ATTEMPTED" ELSE "UNKNOWN"
                 /\ UNCHANGED <<files, quarantine, content, touches, audit, reconciled>>
<1>0. LocalTypes /\ r \in Callers /\ r \notin Executors
  BY LocalsOfInv, CallersAssumption DEF LocalInv, Callers
<1>. USE <1>0 DEF LocalTypes, Goto, Report, Advance, Finish, Still
<1>1. ASSUME NEW e \in Executors, Execute(e) PROVE Still(r)
  BY <1>1 DEF Execute, Claim, CheckFresh, CheckAuth, CheckPlan, Pin, Rename, Move,
      RenameFails, Verify, Stumble, Record, RecordRest, Callers
<1>2. ASSUME NEW q \in Recoverers, Recover(q), q # r PROVE Still(r)
  BY <1>2 DEF Recover, ClaimRecovery, Survey, Observe, RecordObserved, Callers
<1>3. ASSUME NEW b \in Callers, Complete(b) \/ Die(b) PROVE Still(r)
  BY <1>3 DEF Complete, Die
<1>4. CASE UNCHANGED callVars
  BY <1>4 DEF callVars
<1>5. CASE Recover(r)
  <2>1. Observe(r)
    BY <1>5 DEF Recover, ClaimRecovery, Survey, RecordObserved
  <2>2. PICK d \in todo[r] :
           /\ at' = [at EXCEPT ![r] = CHOOSE n \in 1..Len(Actions[PlanOf[job[r]]]) :
                                          Actions[PlanOf[job[r]]][n] = d]
           /\ result' = [result EXCEPT ![r] = IF Unchanged(d) THEN "NOT_ATTEMPTED"
                                              ELSE "UNKNOWN"]
    BY <2>1 DEF Observe
  <2>3. /\ pc[r] = "observe" /\ job[r] \in Executions /\ todo[r] \subseteq Planned(job[r])
        /\ UNCHANGED <<files, quarantine, content, touches, audit, reconciled, job>>
    BY <2>1, LocalsOfInv DEF Observe, LocalInv, JobsOK, RecoverersOK, NoFile, NoRow,
        fileVars, rowVars
  <2>4. \E n \in 1..Len(Actions[PlanOf[job[r]]]) : Actions[PlanOf[job[r]]][n] = d
    BY <2>3, PlanFacts DEF PlanLen, PlannedAt
  <2>5. at'[r] = CHOOSE n \in 1..Len(Actions[PlanOf[job[r]]]) : Actions[PlanOf[job[r]]][n] = d
    BY <2>2
  <2>6. Actions[PlanOf[job[r]]][at'[r]] = d
    BY <2>4, <2>5
  <2>7. result'[r] = IF Unchanged(d) THEN "NOT_ATTEMPTED" ELSE "UNKNOWN"
    BY <2>2
  <2>8. d \in Planned(job[r])
    BY <2>3
  <2>. QED
    BY <2>3, <2>6, <2>7, <2>8 DEF PlannedAt
<1>. QED
  BY <1>1, <1>2, <1>3, <1>4, <1>5, CallSteps

\* Without a Replace, a path keeps its file or loses it; a filled slot's path is empty.
LEMMA FilesShrink ==
    ASSUME IInv, [Next]_vars,
           \A p \in Paths, i \in Inodes : ~Replace(p, i)
    PROVE  /\ \A p \in Paths : files'[p] # None => files'[p] = files[p]
           /\ \A x \in Executions, d \in Docs :
                 quarantine'[x][d] # quarantine[x][d] => files'[SourceOf[d]] = None
<1>0. files \in [Paths -> Inodes \cup {None}]
  BY DEF IInv, TypeOK, FilesTypeOK
<1>1. ASSUME NEW p \in Paths, files'[p] # None PROVE files'[p] = files[p]
  <2>1. ASSUME NEW e \in Executors, Rename(e) PROVE files'[p] = files[p]
    BY <1>1, <2>1, MoveFacts DEF Rename, RenameFails, NoFile, fileVars
  <2>. QED
    BY <1>0, <1>1, <2>1, FileSteps DEF Remove, Write
<1>2. ASSUME NEW x \in Executions, NEW d \in Docs, quarantine'[x][d] # quarantine[x][d]
      PROVE  files'[SourceOf[d]] = None
  <2>1. PICK e \in Executors : Rename(e) /\ job[e] = x /\ Action(e) = d
    BY <1>2, QuarantineSteps
  <2>2. Move(e)
    BY <1>2, <2>1 DEF Rename, RenameFails, NoFile, fileVars
  <2>. QED
    BY <2>1, <2>2, MoveFacts
<1>. QED
  BY <1>1, <1>2

\* Without haste, executor and recovery of an execution take turns, and denials are true.
LEMMA DenialKept == IInv /\ AheadUntouched /\ DenialInv /\ [Next]_vars => DenialInv'
<1>. SUFFICES ASSUME IInv, AheadUntouched, DenialInv, [Next]_vars, Patient'
              PROVE  TurnsTaken' /\ DenialIsTrue'
  BY DEF DenialInv
<1>0. /\ Patient /\ TurnsTaken /\ DenialIsTrue
      /\ LocalTypes /\ Executors \subseteq Callers /\ Recoverers \subseteq Callers
      /\ \A c \in Callers : /\ pc[c] = "idle" => job[c] = None
                            /\ pc[c] # "idle" => job[c] \in Executions
  BY LocalsOfInv DEF Next, vars, Patient, DenialInv, LocalInv, Callers, JobsOK
<1>1. \A p \in Paths, i \in Inodes : ~Replace(p, i)
  BY <1>0 DEF Patient, Replace, Touch
<1>2. ASSUME NEW e \in Executors, NEW r \in Recoverers, job'[e] # None PROVE job'[r] # job'[e]
  <2>1. e # r /\ e \in Callers /\ r \in Callers
    BY CallersAssumption DEF Callers
  <2>2. CASE job'[e] = job[e] /\ job'[r] = job[r]
    BY <1>0, <1>2, <2>2 DEF TurnsTaken
  <2>3. CASE job'[e] # job[e]
    BY <1>0, <1>2, <2>1, <2>3, JobTaken, CallersAssumption DEF Patient, Excluded
  <2>4. CASE job'[r] # job[r] /\ job'[r] # None
    BY <1>0, <1>2, <2>1, <2>4, JobTaken, CallersAssumption DEF Patient, Excluded
  <2>. QED
    BY <1>2, <2>2, <2>3, <2>4
<1>3. ASSUME NEW x \in Executions, NEW d \in Docs, quarantine'[x][d] # None
      PROVE  files'[SourceOf[d]] = None
  BY <1>0, <1>1, <1>3, FilesShrink, FilesAssumption DEF TurnsTaken
<1>4. ASSUME NEW e \in Executors, pc'[e] \in AtAction, NEW n \in 1..PlanLen(job'[e]), at'[e] <= n
      PROVE  audit'[job'[e]][PlannedAt(job'[e], n)] = None
  <2>. DEFINE x == job'[e]
              d == PlannedAt(x, n)
  <2>1. x \in Executions /\ d \in Docs /\ d \in Planned(x) /\ pc'[e] # "idle"
    <3>1. x \in Executions
      BY <1>4, Types DEF JobsOK, AtAction, Callers
    <3>. QED
      BY <1>4, <3>1, PlanFacts DEF AtAction
  <2>2. job[e] = x /\ pc[e] # "idle"
    BY <1>0, <1>4, <2>1, ExecutorFlow, NoneAssumption DEF Still, Flow, AtAction
  <2>3. audit[x][d] = None
    <3>1. CASE pc[e] \in AtAction /\ at[e] <= n
      BY <1>0, <1>4, <2>1, <2>2, <3>1 DEF TurnsTaken
    <3>2. CASE pc[e] = "fresh"
      BY <1>4, <2>1, <2>2, <3>2, ExecutorFlow DEF Still, Flow, AtAction
    <3>3. pc[e] \in AtAction => at[e] \in Nat /\ at'[e] \in {at[e], at[e] + 1}
      BY <1>0, <1>4, <2>2, ExecutorFlow, NoneAssumption DEF Still, Flow, AtAction,
          LocalTypes
    <3>4. pc[e] \in AtAction \cup {"fresh"}
      BY <1>4, <2>2, ExecutorFlow, NoneAssumption DEF Still, Flow, AtAction
    <3>5. pc[e] \in AtAction => at[e] <= n
      BY <1>4, <3>3
    <3>. QED
      BY <3>1, <3>2, <3>4, <3>5
  <2>4. ASSUME audit'[x][d] # None PROVE FALSE
    <3>1. ASSUME NEW f \in Executors, job[f] = x, Action(f) = d, Record(f) \/ RecordRest(f)
          PROVE  FALSE
      <4>1. f = e
        BY <2>1, <2>2, <3>1, NoneAssumption DEF IInv, OneExecutor
      <4>2. pc[e] \in {"record", "rest"} /\ at[e] \in 1..PlanLen(x) /\ d = PlannedAt(x, at[e])
        BY <2>2, <3>1, <4>1 DEF Record, RecordRest, IInv, ExecutorsOK, AtAction, Action,
            PlannedAt
      <4>3. at[e] = n
        BY <1>4, <2>1, <4>2, PlanFacts
      <4>4. at'[e] = at[e] + 1 \/ pc'[e] = "idle"
        BY <1>0, <3>1, <4>1 DEF Record, RecordRest, Advance, Finish, Goto, LocalTypes
      <4>. QED
        BY <1>4, <2>1, <4>2, <4>3, <4>4
    <3>2. ASSUME NEW r \in Recoverers, job[r] = x PROVE FALSE
      BY <1>0, <2>1, <2>2, <3>2, NoneAssumption DEF TurnsTaken
    <3>. QED
      BY <2>1, <2>3, <2>4, <3>1, <3>2, AuditWriter
  <2>. QED
    BY <2>4
<1>5. ASSUME NEW r \in Recoverers, pc'[r] = "recordObserved", result'[r] \in NothingHappened
      PROVE  quarantine'[job'[r]][PlannedAt(job'[r], at'[r])] = None
  <2>1. CASE Still(r) /\ pc[r] = "recordObserved"
    <3>. DEFINE x == job[r]
                d == PlannedAt(x, at[r])
    <3>1. x \in Executions /\ at[r] \in 1..PlanLen(x)
      BY <1>0, <2>1 DEF IInv, RecoverersOK
    <3>2. d \in Docs
      BY <3>1, PlanFacts
    <3>3. quarantine[x][d] = None
      BY <1>0, <1>5, <2>1 DEF TurnsTaken, Still
    <3>4. quarantine'[x][d] = quarantine[x][d]
      BY <1>0, <3>1, <3>2, QuarantineSteps, NoneAssumption DEF TurnsTaken
    <3>. QED
      BY <2>1, <3>3, <3>4 DEF Still
  <2>2. ASSUME NEW d \in Planned(job[r]), job[r] \in Executions,
               pc[r] = "observe", job'[r] = job[r], PlannedAt(job[r], at'[r]) = d,
               result'[r] = IF Unchanged(d) THEN "NOT_ATTEMPTED" ELSE "UNKNOWN",
               UNCHANGED <<files, quarantine, content, touches, audit, reconciled>>
        PROVE  quarantine'[job'[r]][PlannedAt(job'[r], at'[r])] = None
    <3>1. Unchanged(d)
      BY <1>5, <2>2 DEF NothingHappened
    <3>2. files[SourceOf[d]] # None
      BY <3>1 DEF Unchanged
    <3>3. d \in Docs
      BY <2>2, PlanFacts
    <3>4. quarantine[job[r]][d] = None
      BY <1>0, <2>2, <3>2, <3>3 DEF TurnsTaken
    <3>. QED
      BY <2>2, <3>4
  <2>. QED
    BY <1>5, <2>1, <2>2, RecovererFlow
<1>6. ASSUME NEW x \in Executions, NEW d \in Planned(x), audit'[x][d] \in NothingHappened
      PROVE  quarantine'[x][d] = None
  <2>1. d \in Docs
    BY PlanFacts
  <2>2. CASE audit'[x][d] = audit[x][d]
    <3>1. quarantine[x][d] = None
      BY <1>0, <1>6, <2>2 DEF DenialIsTrue
    <3>2. ASSUME NEW e \in Executors, Rename(e), job[e] = x, Action(e) = d PROVE FALSE
      <4>1. pc[e] = "rename" /\ at[e] \in 1..PlanLen(x) /\ d = PlannedAt(x, at[e])
        BY <3>2 DEF Rename, IInv, ExecutorsOK, AtAction, Action, PlannedAt
      <4>2. audit[x][d] = None
        BY <1>0, <3>2, <4>1 DEF TurnsTaken, AtAction
      <4>. QED
        BY <1>6, <2>2, <4>2, NoneAssumption DEF NothingHappened, Results
    <3>. QED
      BY <2>1, <3>1, <3>2, QuarantineSteps
  <2>3. CASE audit'[x][d] # audit[x][d]
    <3>0. quarantine' = quarantine
      BY <2>3, AuditsApart
    <3>1. ASSUME NEW e \in Executors, job[e] = x, Action(e) = d, Record(e), audit'[x][d] = result[e]
          PROVE  quarantine[x][d] = None
      BY <1>6, <3>1 DEF AheadUntouched, Record, Action, PlannedAt
    <3>2. ASSUME NEW e \in Executors, job[e] = x, Action(e) = d, RecordRest(e)
          PROVE  quarantine[x][d] = None
      BY <3>2 DEF AheadUntouched, RecordRest, Action, PlannedAt
    <3>3. ASSUME NEW r \in Recoverers, job[r] = x, Action(r) = d, RecordObserved(r),
                 audit'[x][d] = result[r]
          PROVE  quarantine[x][d] = None
      BY <1>0, <1>6, <3>3 DEF TurnsTaken, RecordObserved, Action, PlannedAt
    <3>. QED
      BY <2>1, <2>3, <3>0, <3>1, <3>2, <3>3, AuditWriter
  <2>. QED
    BY <2>2, <2>3
<1>7. TurnsTaken'
  BY <1>2, <1>3, <1>4, <1>5 DEF TurnsTaken, PlanLen, PlannedAt
<1>8. DenialIsTrue'
  BY <1>6 DEF DenialIsTrue, Planned
<1>. QED
  BY <1>7, <1>8

-----------------------------------------------------------------------------
(* No other program                                                        *)

\* A person settles what is unknown, once.
LEMMA ReconcileSteps ==
    ASSUME IInv, [Next]_vars, NEW x \in Executions, NEW d \in Docs,
           reconciled'[x][d] # reconciled[x][d]
    PROVE  \E r \in Reconcilable :
              /\ d \in Planned(x) /\ audit[x][d] = "UNKNOWN" /\ reconciled'[x][d] = r
              /\ IF r = "SUCCESS" THEN files[SourceOf[d]] = None ELSE Unchanged(d)
              /\ UNCHANGED <<files, quarantine, content, audit>>
<1>0. reconciled \in [Executions -> [Docs -> Reconcilable \cup {None}]]
  BY DEF IInv, TypeOK, RowsTypeOK
<1>. USE DEF NoRow, rowVars
<1>1. ASSUME NEW e \in Executors, Execute(e) PROVE UNCHANGED reconciled
  BY <1>1 DEF Execute, Claim, CheckFresh, CheckAuth, CheckPlan, Pin, Rename, Verify,
      Stumble, Record, RecordRest
<1>2. ASSUME NEW r \in Recoverers, Recover(r) PROVE UNCHANGED reconciled
  BY <1>2 DEF Recover, ClaimRecovery, Survey, Observe, RecordObserved
<1>3. ASSUME NEW c \in Callers, Complete(c) \/ Die(c) PROVE UNCHANGED reconciled
  BY <1>3 DEF Complete, Die
<1>4. ASSUME NEW y \in Executions,
             AskAuthorize(y) \/ Grant(y) \/ Revoke(y) \/ Start(y) \/ CompleteByHand(y)
      PROVE  UNCHANGED reconciled
  BY <1>4 DEF AskAuthorize, Grant, Revoke, Start, CompleteByHand
<1>5. ASSUME OtherPrograms PROVE UNCHANGED reconciled
  BY <1>5 DEF OtherPrograms, Remove, Replace, Write, Touch
<1>6. PICK y \in Executions : \E b \in Planned(y), r \in Reconcilable : Reconcile(y, b, r)
  BY <1>1, <1>2, <1>3, <1>4, <1>5 DEF Next, Operators, vars
<1>7. PICK b \in Planned(y), r \in Reconcilable : Reconcile(y, b, r)
  BY <1>6
<1>8. y = x /\ b = d /\ reconciled'[x][d] = r
  BY <1>0, <1>7 DEF Reconcile
<1>. QED
  BY <1>7, <1>8 DEF Reconcile, NoFile, fileVars

\* An audit that was settled stays UNKNOWN.
LEMMA ReconciledKept == IInv /\ ReconciledOpen /\ [Next]_vars => ReconciledOpen'
BY ReconcileSteps, AuditOnce, NoneAssumption DEF ReconciledOpen, Results

\* Without other programs, files change by moves only.
LEMMA QuietSteps ==
    ASSUME IInv, [Next]_vars, touches' = 0
    PROVE  /\ touches = 0 /\ content' = content
           /\ \A p \in Paths, i \in Inodes : ~Replace(p, i)
           /\ \/ UNCHANGED <<files, quarantine>>
              \/ \E e \in Executors : Rename(e) /\ Move(e)
<1>. USE DEF NoFile, fileVars
<1>0. touches \in Nat
  BY DEF IInv, TypeOK, CallsTypeOK
<1>1. ASSUME Touch("remove") \/ Touch("replace") \/ Touch("write") PROVE FALSE
  BY <1>0, <1>1 DEF Touch
<1>2. ASSUME NEW e \in Executors, Execute(e) PROVE UNCHANGED touches
  BY <1>2 DEF Execute, Claim, CheckFresh, CheckAuth, CheckPlan, Pin, Rename, Move,
      RenameFails, Verify, Stumble, Record, RecordRest
<1>3. ASSUME NEW r \in Recoverers, Recover(r) PROVE UNCHANGED touches
  BY <1>3 DEF Recover, ClaimRecovery, Survey, Observe, RecordObserved
<1>4. ASSUME NEW c \in Callers, Complete(c) \/ Die(c) PROVE UNCHANGED touches
  BY <1>4 DEF Complete, Die
<1>5. ASSUME Operators PROVE UNCHANGED touches
  BY <1>5 DEF Operators, AskAuthorize, Grant, Revoke, Start, CompleteByHand, Reconcile
<1>6. ~OtherPrograms
  BY <1>1 DEF OtherPrograms, Remove, Replace, Write
<1>7. touches = 0
  BY <1>2, <1>3, <1>4, <1>5, <1>6 DEF Next, vars
<1>8. UNCHANGED <<files, quarantine, content>> \/ \E e \in Executors : Rename(e)
  BY <1>1, FileSteps DEF Remove, Replace, Write
<1>. QED
  BY <1>1, <1>7, <1>8 DEF Rename, RenameFails, Move, Replace

\* A file that is at its path is as it was when the plan was made.
LEMMA QuietMeansUnchanged ==
    ASSUME IInv, FilesKept, NEW d \in Docs, files[SourceOf[d]] # None
    PROVE  Unchanged(d) /\ files[SourceOf[d]] = FileAt[SourceOf[d]]
BY FilesAssumption DEF FilesKept, Unchanged, Expected

\* A slot an executor fills was empty.
LEMMA SlotFilledOnce ==
    ASSUME IInv, AheadUntouched, [Next]_vars, NEW x \in Executions, NEW d \in Docs,
           quarantine'[x][d] # quarantine[x][d]
    PROVE  /\ quarantine[x][d] = None
           /\ \E e \in Executors :
                 /\ Rename(e) /\ Move(e) /\ job[e] = x /\ Action(e) = d
                 /\ pc[e] = "rename" /\ at[e] \in 1..PlanLen(x) /\ d = PlannedAt(x, at[e])
<1>1. PICK e \in Executors : Rename(e) /\ job[e] = x /\ Action(e) = d
  BY QuarantineSteps
<1>2. pc[e] = "rename" /\ at[e] \in 1..PlanLen(x) /\ d = PlannedAt(x, at[e])
  BY <1>1 DEF Rename, IInv, ExecutorsOK, AtAction, Action, PlannedAt
<1>3. Move(e)
  BY <1>1 DEF Rename, RenameFails, NoFile, fileVars
<1>. QED
  BY <1>1, <1>2, <1>3 DEF AheadUntouched

\* Where nobody else is, each file is at its path or in quarantine, and stays what it was.
LEMMA FilesKeptKept ==
    ASSUME IInv, AheadUntouched, FilesKept, [Next]_vars, touches' = 0
    PROVE  FilesKept'
<1>0. /\ content' = content /\ \A p \in Paths, i \in Inodes : ~Replace(p, i)
      /\ UNCHANGED <<files, quarantine>> \/ \E e \in Executors : Rename(e) /\ Move(e)
  BY QuietSteps
<1>1. \A p \in Paths : files'[p] # None => files'[p] = FileAt[p]
  BY <1>0, FilesShrink DEF FilesKept
<1>2. ASSUME NEW x \in Executions, NEW d \in Docs, quarantine'[x][d] # None
      PROVE  files'[SourceOf[d]] = None
  BY <1>0, <1>2, FilesShrink, FilesAssumption DEF FilesKept
<1>3. ASSUME NEW p \in Paths, files'[p] = None, FileAt[p] # None
      PROVE  \E y \in Executions, b \in Docs : quarantine'[y][b] = FileAt[p]
  <2>1. CASE files[p] = None
    <3>1. PICK y \in Executions, b \in Docs : quarantine[y][b] = FileAt[p]
      BY <1>3, <2>1 DEF FilesKept
    <3>. QED
      BY <1>3, <3>1, SlotFilledOnce
  <2>2. CASE files[p] # None
    <3>1. PICK e \in Executors : Rename(e) /\ Move(e)
      BY <1>0, <1>3, <2>2
    <3>2. PICK x \in Executions, d \in Docs, q \in Paths :
             /\ \A s \in Paths : files'[s] = IF s = q THEN None ELSE files[s]
             /\ quarantine'[x][d] = files[q]
      BY <3>1, MoveFacts, SMTT(30)
    <3>. QED
      BY <1>3, <2>2, <3>2 DEF FilesKept
  <2>. QED
    BY <2>1, <2>2
<1>. QED
  BY <1>0, <1>1, <1>2, <1>3 DEF FilesKept

\* What is recorded as UNKNOWN before an executor gets to it has no file to move.
LEMMA OpenKept ==
    ASSUME IInv, FilesKept, OpenIsGone, [Next]_vars, touches' = 0
    PROVE  OpenIsGone'
<1>0. /\ LocalTypes /\ Executors \subseteq Callers
      /\ \A c \in Callers : /\ pc[c] = "idle" => job[c] = None
                            /\ pc[c] # "idle" => job[c] \in Executions
      /\ \A p \in Paths, i \in Inodes : ~Replace(p, i)
  BY LocalsOfInv, QuietSteps DEF LocalInv, Callers, JobsOK
<1>1. \A d \in Docs : files[SourceOf[d]] = None => files'[SourceOf[d]] = None
  BY <1>0, FilesShrink, FilesAssumption
<1>2. ASSUME NEW e \in Executors, pc'[e] \in AtAction, NEW n \in 1..PlanLen(job'[e]), at'[e] <= n,
             audit'[job'[e]][PlannedAt(job'[e], n)] = "UNKNOWN"
      PROVE  files'[SourceOf[PlannedAt(job'[e], n)]] = None
  <2>. DEFINE x == job'[e]
              d == PlannedAt(x, n)
  <2>1. x \in Executions /\ d \in Docs /\ d \in Planned(x) /\ pc'[e] # "idle"
    <3>1. x \in Executions
      BY <1>2, Types DEF JobsOK, AtAction, Callers
    <3>. QED
      BY <1>2, <3>1, PlanFacts DEF AtAction
  <2>2. job[e] = x /\ pc[e] # "idle"
    BY <1>0, <1>2, <2>1, ExecutorFlow, NoneAssumption DEF Still, Flow, AtAction
  <2>3. CASE audit[x][d] = "UNKNOWN"
    <3>1. pc[e] # "fresh"
      BY <1>2, <2>1, <2>2, <2>3, ExecutorFlow, NoneAssumption DEF Still, Flow, AtAction,
          Results
    <3>2. pc[e] \in AtAction /\ at[e] \in Nat /\ at'[e] \in {at[e], at[e] + 1}
      BY <1>0, <1>2, <2>2, <3>1, ExecutorFlow, NoneAssumption DEF Still, Flow, AtAction,
          LocalTypes
    <3>3. at[e] <= n
      BY <1>2, <3>2, SMTT(30)
    <3>. QED
      BY <1>1, <2>1, <2>2, <2>3, <3>2, <3>3 DEF OpenIsGone
  <2>4. CASE audit[x][d] # "UNKNOWN"
    <3>1. ASSUME NEW f \in Executors, job[f] = x, Action(f) = d, Record(f) \/ RecordRest(f)
          PROVE  FALSE
      <4>1. f = e
        BY <2>1, <2>2, <3>1, NoneAssumption DEF IInv, OneExecutor
      <4>2. pc[e] \in {"record", "rest"} /\ at[e] \in 1..PlanLen(x) /\ d = PlannedAt(x, at[e])
        BY <2>2, <3>1, <4>1 DEF Record, RecordRest, IInv, ExecutorsOK, AtAction, Action,
            PlannedAt
      <4>3. at[e] = n
        BY <1>2, <2>1, <4>2, PlanFacts
      <4>4. at'[e] = at[e] + 1 \/ pc'[e] = "idle"
        BY <1>0, <3>1, <4>1 DEF Record, RecordRest, Advance, Finish, Goto, LocalTypes
      <4>. QED
        BY <1>2, <2>1, <4>2, <4>3, <4>4
    <3>2. PICK r \in Recoverers : /\ job[r] = x /\ Action(r) = d
                                  /\ RecordObserved(r) /\ result[r] = "UNKNOWN"
      BY <1>2, <2>1, <2>4, <3>1, AuditWriter
    <3>. QED
      BY <1>1, <2>1, <3>2 DEF OpenIsGone, RecordObserved, Action, PlannedAt
  <2>. QED
    BY <2>3, <2>4
<1>3. ASSUME NEW r \in Recoverers, pc'[r] = "recordObserved", result'[r] = "UNKNOWN"
      PROVE  files'[SourceOf[PlannedAt(job'[r], at'[r])]] = None
  <2>1. CASE Still(r) /\ pc[r] = "recordObserved"
    <3>1. job[r] \in Executions /\ at[r] \in 1..PlanLen(job[r])
      BY <1>0, <2>1 DEF IInv, RecoverersOK, JobsOK, Callers
    <3>2. PlannedAt(job[r], at[r]) \in Docs
      BY <3>1, PlanFacts
    <3>3. files[SourceOf[PlannedAt(job[r], at[r])]] = None
      BY <1>3, <2>1 DEF OpenIsGone, Still
    <3>. QED
      BY <1>1, <2>1, <3>2, <3>3 DEF Still
  <2>2. ASSUME NEW d \in Planned(job[r]), job[r] \in Executions, job'[r] = job[r],
               PlannedAt(job[r], at'[r]) = d, files' = files,
               result'[r] = IF Unchanged(d) THEN "NOT_ATTEMPTED" ELSE "UNKNOWN"
        PROVE  files'[SourceOf[PlannedAt(job'[r], at'[r])]] = None
    <3>1. d \in Docs /\ ~Unchanged(d)
      BY <1>3, <2>2, PlanFacts
    <3>2. files[SourceOf[d]] = None
      BY <3>1, QuietMeansUnchanged
    <3>. QED
      BY <2>2, <3>2
  <2>. QED
    BY <1>3, <2>1, <2>2, RecovererFlow
<1>. QED
  BY <1>2, <1>3 DEF OpenIsGone, PlanLen, PlannedAt

\* What a person settles is true, and stays so.
LEMMA ReconciliationKept ==
    ASSUME IInv, AheadUntouched, ReconciledOpen, FilesKept, OpenIsGone, ReconciliationTruthful,
           [Next]_vars, touches' = 0
    PROVE  ReconciliationTruthful'
<1>. SUFFICES ASSUME NEW x \in Executions, NEW d \in Planned(x)
              PROVE  /\ reconciled'[x][d] = "SUCCESS" =>
                           \E y \in Executions, b \in Docs : quarantine'[y][b] = FileAt[SourceOf[d]]
                     /\ reconciled'[x][d] = "FAILED" => quarantine'[x][d] = None
  BY DEF ReconciliationTruthful, Planned
<1>0. d \in Docs /\ SourceOf[d] \in Paths /\ FileAt[SourceOf[d]] # None
  <2>1. d \in Docs /\ \E n \in 1..PlanLen(x) : d = PlannedAt(x, n)
    BY PlanFacts
  <2>. QED
    BY <2>1, FilesAssumption, PlansAssumption DEF PlanLen, PlannedAt
<1>1. CASE reconciled'[x][d] = reconciled[x][d]
  <2>1. ASSUME reconciled[x][d] = "SUCCESS"
        PROVE  \E y \in Executions, b \in Docs : quarantine'[y][b] = FileAt[SourceOf[d]]
    <3>1. PICK y \in Executions, b \in Docs : quarantine[y][b] = FileAt[SourceOf[d]]
      BY <2>1 DEF ReconciliationTruthful
    <3>. QED
      BY <1>0, <3>1, SlotFilledOnce
  <2>2. ASSUME reconciled[x][d] = "FAILED", quarantine'[x][d] # None PROVE FALSE
    <3>1. quarantine[x][d] = None
      BY <2>2 DEF ReconciliationTruthful
    <3>2. PICK e \in Executors :
             /\ Rename(e) /\ Move(e) /\ job[e] = x /\ Action(e) = d
             /\ pc[e] = "rename" /\ at[e] \in 1..PlanLen(x) /\ d = PlannedAt(x, at[e])
      BY <1>0, <2>2, <3>1, SlotFilledOnce
    <3>3. audit[x][d] = "UNKNOWN"
      BY <1>0, <2>2, NoneAssumption DEF ReconciledOpen, Results
    <3>4. files[SourceOf[d]] = None
      BY <3>2, <3>3 DEF OpenIsGone, AtAction
    <3>. QED
      BY <3>2, <3>4 DEF Move
  <2>. QED
    BY <1>1, <2>1, <2>2
<1>2. CASE reconciled'[x][d] # reconciled[x][d]
  <2>1. PICK r \in Reconcilable :
           /\ reconciled'[x][d] = r
           /\ IF r = "SUCCESS" THEN files[SourceOf[d]] = None ELSE Unchanged(d)
           /\ quarantine' = quarantine
    BY <1>0, <1>2, ReconcileSteps
  <2>. QED
    BY <1>0, <2>1 DEF FilesKept, Unchanged
<1>. QED
  BY <1>1, <1>2

\* All of that, where no other program was there.
LEMMA QuietKept ==
    IInv /\ AheadUntouched /\ ReconciledOpen /\ QuietInv /\ [Next]_vars => QuietInv'
BY QuietSteps, FilesKeptKept, OpenKept, ReconciliationKept DEF QuietInv

-----------------------------------------------------------------------------
(* The last copy                                                           *)

\* An executor has seen the canonical file before it moves another, and nobody has moved it since.
LEMMA CanonicalKept ==
    ASSUME IInv, InScope, CanonicalThere, TrueCopies, NoRivalPlans, [Next]_vars, touches' = 0
    PROVE  CanonicalThere'
<1>. SUFFICES ASSUME NEW e \in Executors, pc'[e] \in {"pin", "rename"}
              PROVE  files'[SourceOf[Canonical[PlanOf[job'[e]]]]] # None
  BY DEF CanonicalThere
<1>. DEFINE x == job'[e]
            k == Canonical[PlanOf[x]]
<1>0. Executors \subseteq Callers /\ InScope'
  BY ScopeKept DEF Callers
<1>1. /\ x \in scenario.executions /\ e \in scenario.callers /\ x \in Executions
      /\ k \in Docs /\ SourceOf[k] \in Paths
  <2>1. x \in scenario.executions /\ e \in scenario.callers /\ scenario \in Scenarios
    BY <1>0 DEF InScope, Next, vars, IInv, TypeOK
  <2>2. x \in Executions
    BY <2>1, ScopeAssumption
  <2>. QED
    BY <2>1, <2>2, PlansAssumption, FilesAssumption
<1>2. job[e] = x /\ files[SourceOf[k]] # None
  BY <1>1, ExecutorFlow, NoneAssumption DEF Still, Flow, CanonicalThere, CanonicalValid,
      Unchanged
<1>3. UNCHANGED files \/ \E f \in Executors : Rename(f) /\ Move(f)
  BY QuietSteps
<1>4. ASSUME NEW f \in Executors, Rename(f), Move(f) PROVE files'[SourceOf[k]] # None
  <2>1. PICK y \in Executions, d \in Docs :
           /\ d \in Planned(y) /\ y = job[f] /\ pc[f] = "rename" /\ pc'[f] = "verify"
           /\ \A q \in Paths : files'[q] = IF q = SourceOf[d] THEN None ELSE files[q]
    BY <1>4, MoveFacts
  <2>2. y \in scenario.executions /\ f \in scenario.callers
    BY <1>0, <2>1 DEF InScope
  <2>3. f # e
    BY <2>1
  <2>4. Canonical[PlanOf[y]] = k
    BY <1>1, <2>2, <2>3 DEF NoRivalPlans
  <2>5. SourceOf[d] # SourceOf[k]
    BY <1>1, <2>1, <2>2, <2>4 DEF TrueCopies
  <2>. QED
    BY <1>1, <1>2, <2>1, <2>5
<1>. QED
  BY <1>2, <1>3, <1>4

\* A file is moved only where the one to keep is there.
LEMMA CopyKept ==
    IInv /\ InScope /\ QuietInv /\ CopyInv /\ [Next]_vars => CopyInv'
<1>. SUFFICES ASSUME IInv, InScope, QuietInv, CopyInv, [Next]_vars, touches' = 0,
                     TrueCopies', NoRivalPlans'
              PROVE  CanonicalThere' /\ LastCopySurvives'
  BY DEF CopyInv
<1>0. /\ touches = 0 /\ content' = content /\ scenario' = scenario /\ scenario \in Scenarios
      /\ UNCHANGED files \/ \E e \in Executors : Rename(e) /\ Move(e)
  BY QuietSteps DEF Next, vars, IInv, TypeOK
<1>1. TrueCopies /\ NoRivalPlans
  BY <1>0 DEF TrueCopies, NoRivalPlans, Planned, Expected
<1>2. FilesKept /\ CanonicalThere /\ LastCopySurvives
  BY <1>0, <1>1 DEF QuietInv, CopyInv
<1>3. CanonicalThere'
  BY <1>1, <1>2, CanonicalKept
<1>4. ASSUME NEW x \in scenario.executions
      PROVE  \E p \in Paths : /\ files'[p] # None
                              /\ content[files'[p]] = Expected(Canonical[PlanOf[x]])
  <2>1. PICK p \in Paths : files[p] # None /\ content[files[p]] = Expected(Canonical[PlanOf[x]])
    BY <1>0, <1>1, <1>2 DEF LastCopySurvives
  <2>2. ASSUME NEW e \in Executors, Rename(e), Move(e), files'[p] = None
        PROVE  \E q \in Paths : /\ files'[q] # None
                                /\ content[files'[q]] = Expected(Canonical[PlanOf[x]])
    <3>1. PICK y \in Executions, d \in Docs :
             /\ d \in Planned(y) /\ y = job[e] /\ pc[e] = "rename"
             /\ \A q \in Paths : files'[q] = IF q = SourceOf[d] THEN None ELSE files[q]
      BY <2>2, MoveFacts
    <3>. DEFINE k == Canonical[PlanOf[y]]
    <3>2. y \in scenario.executions
      BY <3>1 DEF InScope, Callers
    <3>3. k \in Docs /\ SourceOf[k] \in Paths /\ d \in Docs
      BY PlansAssumption, FilesAssumption, PlanFacts
    <3>4. SourceOf[d] # SourceOf[k] /\ Expected(d) = Expected(k)
      BY <1>1, <3>1, <3>2 DEF TrueCopies
    <3>5. p = SourceOf[d] /\ content[files[p]] = Expected(d)
      <4>1. p = SourceOf[d]
        BY <2>1, <2>2, <3>1
      <4>. QED
        BY <1>2, <2>1, <3>3, <4>1, QuietMeansUnchanged DEF Unchanged
    <3>6. files[SourceOf[k]] # None
      BY <1>2, <3>1 DEF CanonicalThere
    <3>7. content[files[SourceOf[k]]] = Expected(k)
      BY <1>2, <3>3, <3>6, QuietMeansUnchanged DEF Unchanged
    <3>8. files'[SourceOf[k]] = files[SourceOf[k]]
      BY <3>1, <3>3, <3>4
    <3>. QED
      BY <2>1, <3>3, <3>4, <3>5, <3>6, <3>7, <3>8
  <2>3. files'[p] = None \/ files'[p] = files[p]
    BY <1>0, MoveFacts
  <2>. QED
    BY <1>0, <2>1, <2>2, <2>3
<1>. QED
  BY <1>0, <1>3, <1>4 DEF LastCopySurvives, Expected

\* The parts of the hypothesis of the theorems below.
CaseInv ==
    /\ IInv /\ AheadUntouched /\ InScope /\ LateOnce
    /\ DenialInv /\ ReconciledOpen /\ QuietInv /\ CopyInv

\* They hold of the files as the plans were made.
LEMMA InitCase == Init => CaseInv
<1>. SUFFICES ASSUME Init PROVE CaseInv
  OBVIOUS
<1>. USE DEF Init, Callers
<1>0. IInv
  BY InitInv
<1>1. \A e \in Executors : pc[e] = "idle" /\ job[e] = None
  OBVIOUS
<1>2. \A r \in Recoverers : pc[r] = "idle" /\ job[r] = None
  OBVIOUS
<1>3. /\ \A x \in Executions, d \in Docs :
            quarantine[x][d] = None /\ audit[x][d] = None /\ reconciled[x][d] = None
      /\ \A x \in Executions : auth[x] = "ABSENT" /\ status[x] = "ABSENT" /\ lateMoves[x] = 0
  OBVIOUS
<1>4. \A x \in Executions : Planned(x) \subseteq Docs
  BY PlanFacts
<1>5. AheadUntouched
  BY <1>1, <1>3 DEF AheadUntouched, AtAction
<1>6. InScope /\ LateOnce
  BY <1>3 DEF InScope, LateOnce
<1>7. DenialInv
  BY <1>1, <1>2, <1>3, <1>4 DEF DenialInv, TurnsTaken, DenialIsTrue, AtAction
<1>8. ReconciledOpen
  BY <1>3 DEF ReconciledOpen
<1>9. QuietInv
  <2>1. FilesKept
    BY <1>3 DEF FilesKept
  <2>2. OpenIsGone
    BY <1>1, <1>2 DEF OpenIsGone, AtAction
  <2>3. ReconciliationTruthful
    BY <1>3, <1>4, NoneAssumption DEF ReconciliationTruthful, Results
  <2>. QED
    BY <2>1, <2>2, <2>3 DEF QuietInv
<1>10. CopyInv
  <2>1. CanonicalThere
    BY <1>1 DEF CanonicalThere
  <2>2. ASSUME TrueCopies, NEW x \in scenario.executions
        PROVE  \E p \in Paths : /\ files[p] # None
                                /\ content[files[p]] = Expected(Canonical[PlanOf[x]])
    <3>. DEFINE p == SourceOf[Canonical[PlanOf[x]]]
    <3>1. p \in Paths
      BY ScopeAssumption, PlansAssumption, FilesAssumption
    <3>2. FileAt[p] # None
      BY <2>2 DEF TrueCopies
    <3>. QED
      BY <3>1, <3>2 DEF Expected
  <2>. QED
    BY <2>1, <2>2 DEF CopyInv, LastCopySurvives
<1>. QED
  BY <1>0, <1>5, <1>6, <1>7, <1>8, <1>9, <1>10 DEF CaseInv

\* Every step keeps them.
LEMMA StepCase == CaseInv /\ [Next]_vars => CaseInv'
<1>1. IInv /\ [Next]_vars => IInv'
  BY Types, OneExecutorKept, PlacedKept, InOrderKept, SuccessVerifiedKept,
     SuccessExactKept, StopsKept, FinalDerivedKept DEF IInv
<1>. QED
  BY <1>1, AheadKept, ScopeKept, LateKept, DenialKept, ReconciledKept, QuietKept, CopyKept
  DEF CaseInv

-----------------------------------------------------------------------------
(* Theorems                                                                *)

\* The induction hypothesis holds in every reachable state.
THEOREM Invariance == Spec => []IInv
<1>1. IInv /\ [Next]_vars => IInv'
  BY Types, OneExecutorKept, PlacedKept, InOrderKept, SuccessVerifiedKept,
     SuccessExactKept, StopsKept, FinalDerivedKept DEF IInv
<1>. QED
  BY <1>1, InitInv, PTL DEF Spec

\* Types of the file system, the rows and the locals of calls.
THEOREM TypeCorrect == Spec => []TypeOK
<1>1. IInv => TypeOK
  BY DEF IInv
<1>. QED
  BY <1>1, Invariance, PTL

\* Two calls of execute never work on the same execution, whatever the number of
\* callers and whenever they die: _claim_execution hands it out once.
THEOREM ExecutorsExclusive == Spec => []OneExecutor
<1>1. IInv => OneExecutor
  BY DEF IInv
<1>. QED
  BY <1>1, Invariance, PTL

\* A file recorded as SUCCESS lies in quarantine with the planned content, whatever
\* other programs put at its path before, and recovery writes meanwhile.
THEOREM SuccessIsExact == Spec => []SuccessExact
<1>1. IInv => SuccessExact
  BY DEF IInv
<1>. QED
  BY <1>1, Invariance, PTL

\* No file moves after an action that has not been recorded as a success.
THEOREM StopsInTime == Spec => []StopsAtFirstFailure
<1>1. IInv => StopsAtFirstFailure
  BY DEF IInv
<1>. QED
  BY <1>1, Invariance, PTL

\* A final status never changes, though complete_execution may write it again from
\* a stale row: by then the audits cannot change any more.
THEOREM FinalStatusStays == Spec => FinalStatusStable
<1>1. IInv /\ [Next]_vars =>
         [\A x \in Executions : status[x] \in FinalStatus => status'[x] = status[x]]_vars
  BY FinalStays
<1>. QED
  BY <1>1, Invariance, PTL DEF Spec, FinalStatusStable

\* At most the move that was past its check when the authorization was revoked
\* still happens: check_currency is asked again before each action.
THEOREM RevocationHolds == Spec => []RevocationStops
<1>1. CaseInv => RevocationStops
  BY DEF CaseInv, LateOnce, RevocationStops, IInv, TypeOK, CallsTypeOK
<1>. QED
  BY <1>1, InitCase, StepCase, PTL DEF Spec

\* What the audits deny did not happen, although executor and recovery may die
\* anywhere and files vanish or are rewritten, and what a person settles is so if
\* nobody else was there.
THEOREM AuditsTruthful == Spec => []AuditTruthful
<1>1. CaseInv => AuditTruthful
  BY DEF CaseInv, DenialInv, QuietInv, AuditTruthful, Patient
<1>. QED
  BY <1>1, InitCase, StepCase, PTL DEF Spec

\* However many executions run, what a plan keeps has a copy outside the quarantine,
\* if they agree on what to keep or one call executes them all.
THEOREM CopySurvives == Spec => []LastCopySurvives
<1>1. CaseInv => LastCopySurvives
  BY DEF CaseInv, CopyInv, LastCopySurvives
<1>. QED
  BY <1>1, InitCase, StepCase, PTL DEF Spec
=============================================================================
