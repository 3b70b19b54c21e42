--------------------------- MODULE DedupExecution ---------------------------
(***************************************************************************)
(* The part of deduplication that touches files: authorizations of plans,  *)
(* the executor that moves duplicates into quarantine, the recovery of an  *)
(* execution whose executor has died, and the reconciliation of unknown    *)
(* outcomes.                                                               *)
(*                                                                         *)
(*   DedupPlanAuthorizationService   AskAuthorize, Grant, Revoke           *)
(*   DedupFilesystemExecutor         Claim, CheckFresh, CheckAuth,         *)
(*                                   CheckPlan, Pin, Rename, Verify,       *)
(*                                   Stumble, Record, RecordRest           *)
(*   DedupExecutionService           Start, ClaimRecovery, Survey,         *)
(*                                   Observe, RecordObserved, Complete     *)
(*   DedupReconciliationService      Reconcile                             *)
(*                                                                         *)
(* One action is one transaction or one access to a file; other programs   *)
(* remove, replace and rewrite files in between, by their paths.  A plan   *)
(* is never changed after it was generated, so plans are constants here;   *)
(* an authorization has one execution at most and shares its name.         *)
(***************************************************************************)
EXTENDS Integers, Sequences, FiniteSets

CONSTANTS
    Docs,         \* documents
    Paths,        \* file paths under allowed_root
    Inodes,       \* files, wherever they are
    Contents,     \* what a file may hold
    Executions,   \* executions, with their authorizations
    Plans,        \* plans that were generated
    Executors,    \* calls of execute
    Recoverers,   \* calls of recover_stale_execution
    None,         \* SQL NULL, no file
    SourceOf,     \* [Docs -> Paths]: Document.source
    FileAt,       \* [Paths -> Inodes \cup {None}]: the files when the plans were made
    Held,         \* [Inodes -> Contents]: what the files hold then
    PlanOf,       \* [Executions -> Plans]
    Canonical,    \* [Plans -> Docs]
    Actions,      \* [Plans -> Seq(Docs)]: the documents to remove, in order of id
    Scenarios     \* the circumstances to consider, see ScopeAssumption

Callers == Executors \cup Recoverers

\* No row yet; looked for another active authorization; AUTHORIZED; REVOKED.
AuthStates == {"ABSENT", "CHECKED", "AUTHORIZED", "REVOKED"}

FinalStatus == {"COMPLETED", "FAILED", "PARTIALLY_COMPLETED", "NEEDS_REVIEW"}

ExecutionStatus == {"ABSENT", "RUNNING"} \cup FinalStatus

Results == {"SUCCESS", "PRECONDITION_FAILED", "FAILED", "NOT_ATTEMPTED", "UNKNOWN"}

\* What reconcile_action may turn UNKNOWN into.
Reconcilable == {"SUCCESS", "FAILED"}

Disturbances ==
    {"remove",    \* another program removes a file,
     "replace",   \* puts another one in its place,
     "write",     \* or writes to it
     "rename",    \* os.rename fails although the file is there
     "error",     \* an unexpected error in the middle of an action
     "revoke",    \* an operator revokes authorizations
     "haste"}     \* recovery is asked for although the execution may still go on

Steps == {"idle", "fresh", "auth", "plan", "pin", "rename", "verify", "record",
          "rest", "survey", "observe", "recordObserved", "complete"}

ASSUME NoneAssumption == None \notin Executions \cup Inodes \cup Results
ASSUME CallersAssumption == Executors \cap Recoverers = {}
ASSUME FilesAssumption ==
    /\ SourceOf \in [Docs -> Paths]
    /\ FileAt \in [Paths -> Inodes \cup {None}]
    /\ Held \in [Inodes -> Contents]
    /\ \A p, q \in Paths : p # q /\ FileAt[p] # None => FileAt[p] # FileAt[q]

\* generate_plan_for_review leaves out members whose file is missing, fails when
\* none is left, and makes one action for each; a review has two members at least.
ASSUME PlansAssumption ==
    /\ PlanOf \in [Executions -> Plans]
    /\ Canonical \in [Plans -> Docs]
    /\ Actions \in [Plans -> Seq(Docs)]
    /\ \A p \in Plans : \A n \in 1..Len(Actions[p]) :
          /\ Actions[p][n] # Canonical[p]
          /\ FileAt[SourceOf[Actions[p][n]]] # None
    /\ \A p \in Plans : Len(Actions[p]) > 0
    /\ \A p \in Plans : \A m, n \in 1..Len(Actions[p]) :
          Actions[p][m] = Actions[p][n] => m = n

\* A scenario names the executions that may be started, the calls that may be
\* made, those of them that may die, what may go wrong, and how often other
\* programs touch a file.
ASSUME ScopeAssumption ==
    \A s \in Scenarios :
        /\ s.executions \subseteq Executions
        /\ s.callers \subseteq Callers
        /\ s.disturbances \subseteq Disturbances
        /\ s.mortal \subseteq s.callers
        /\ s.touches \in Nat

VARIABLES
    \* the file system: what is at a path, in a quarantine slot, in a file
    files, quarantine, content,
    \* dedup_plan_authorizations, dedup_executions
    auth, status, claimed, recoveryClaimed,
    \* dedup_execution_action_audits, .._reconciliations
    audit, reconciled,
    \* the calls: step, execution, action, pinned inode, result to record, actions
    \* that recovery has left to do
    pc, job, at, pinned, result, todo,
    \* history: files touched, moves after a revocation
    touches, lateMoves,
    \* the scenario this behaviour belongs to
    scenario

fileVars == <<files, quarantine, content, touches>>
rowVars == <<auth, status, claimed, recoveryClaimed, audit, reconciled>>
callVars == <<pc, job, at, pinned, result, todo>>
vars == <<fileVars, rowVars, callVars, lateMoves, scenario>>

FilesTypeOK ==
    /\ files \in [Paths -> Inodes \cup {None}]
    /\ quarantine \in [Executions -> [Docs -> Inodes \cup {None}]]
    /\ content \in [Inodes -> Contents]

RowsTypeOK ==
    /\ auth \in [Executions -> AuthStates]
    /\ status \in [Executions -> ExecutionStatus]
    /\ claimed \subseteq Executions
    /\ recoveryClaimed \subseteq Executions
    /\ audit \in [Executions -> [Docs -> Results \cup {None}]]
    /\ reconciled \in [Executions -> [Docs -> Reconcilable \cup {None}]]

CallsTypeOK ==
    /\ pc \in [Callers -> Steps]
    /\ job \in [Callers -> Executions \cup {None}]
    /\ at \in [Callers -> Nat]
    /\ pinned \in [Callers -> Inodes \cup {None}]
    /\ result \in [Callers -> Results \cup {None}]
    /\ todo \in [Callers -> SUBSET Docs]
    /\ touches \in Nat
    /\ lateMoves \in [Executions -> Nat]

TypeOK == FilesTypeOK /\ RowsTypeOK /\ CallsTypeOK /\ scenario \in Scenarios

Init ==
    /\ scenario \in Scenarios
    /\ files = FileAt
    /\ content = Held
    /\ quarantine = [x \in Executions |-> [d \in Docs |-> None]]
    /\ auth = [x \in Executions |-> "ABSENT"]
    /\ status = [x \in Executions |-> "ABSENT"]
    /\ claimed = {}
    /\ recoveryClaimed = {}
    /\ audit = [x \in Executions |-> [d \in Docs |-> None]]
    /\ reconciled = [x \in Executions |-> [d \in Docs |-> None]]
    /\ pc = [c \in Callers |-> "idle"]
    /\ job = [c \in Callers |-> None]
    /\ at = [c \in Callers |-> 0]
    /\ pinned = [c \in Callers |-> None]
    /\ result = [c \in Callers |-> None]
    /\ todo = [c \in Callers |-> {}]
    /\ touches = 0
    /\ lateMoves = [x \in Executions |-> 0]
-----------------------------------------------------------------------------
(* Helpers                                                                 *)

Planned(x) == {Actions[PlanOf[x]][n] : n \in 1..Len(Actions[PlanOf[x]])}

\* observed_content_hash, observed_file_size of a document's file in the plan.
Expected(d) == Held[FileAt[SourceOf[d]]]

\* _observe_file finds what the plan expects.
Unchanged(d) ==
    LET p == SourceOf[d] IN
    /\ FileAt[p] # None
    /\ files[p] # None
    /\ content[files[p]] = Expected(d)

CanonicalValid(x) == Unchanged(Canonical[PlanOf[x]])

PlanValid(x) == CanonicalValid(x) /\ \A d \in Planned(x) : Unchanged(d)

AllAudited(x) == \A d \in Planned(x) : audit[x][d] # None

\* The status that complete_execution derives from the audits.
Outcome(x) ==
    LET found == {audit[x][d] : d \in Planned(x)} IN
    IF "UNKNOWN" \in found THEN "NEEDS_REVIEW"
    ELSE IF found \subseteq {"SUCCESS"} THEN "COMPLETED"
    ELSE IF "SUCCESS" \in found THEN "PARTIALLY_COMPLETED"
    ELSE "FAILED"

Goto(c, step) == pc' = [pc EXCEPT ![c] = step]

Action(c) == Actions[PlanOf[job[c]]][at[c]]

\* The call has returned, raised or died.
Finish(c) ==
    /\ Goto(c, "idle")
    /\ job' = [job EXCEPT ![c] = None]
    /\ at' = [at EXCEPT ![c] = 0]
    /\ pinned' = [pinned EXCEPT ![c] = None]
    /\ result' = [result EXCEPT ![c] = None]
    /\ todo' = [todo EXCEPT ![c] = {}]

\* On to the next action, or to the end of the plan.
Advance(c, step) ==
    /\ at' = [at EXCEPT ![c] = @ + 1]
    /\ Goto(c, IF at[c] = Len(Actions[PlanOf[job[c]]]) THEN "complete" ELSE step)

\* The result is settled, and is recorded next.
Report(c, r) ==
    /\ result' = [result EXCEPT ![c] = r]
    /\ Goto(c, "record")

NoFile == UNCHANGED <<fileVars, lateMoves>>
NoRow == UNCHANGED rowVars
-----------------------------------------------------------------------------
(* Authorizations and executions                                           *)

\* authorize_plan looks for an active authorization of the plan ...
AskAuthorize(x) ==
    /\ x \in scenario.executions
    /\ auth[x] = "ABSENT"
    /\ ~\E y \in Executions : PlanOf[y] = PlanOf[x] /\ auth[y] = "AUTHORIZED"
    /\ auth' = [auth EXCEPT ![x] = "CHECKED"]
    /\ UNCHANGED <<fileVars, status, claimed, recoveryClaimed, audit, reconciled, callVars,
                   lateMoves>>

\* ... and inserts its own if the files are as the plan has them.
Grant(x) ==
    /\ auth[x] = "CHECKED"
    /\ PlanValid(x)
    /\ auth' = [auth EXCEPT ![x] = "AUTHORIZED"]
    /\ UNCHANGED <<fileVars, status, claimed, recoveryClaimed, audit, reconciled, callVars,
                   lateMoves>>

Revoke(x) ==
    /\ "revoke" \in scenario.disturbances
    /\ auth[x] = "AUTHORIZED"
    /\ auth' = [auth EXCEPT ![x] = "REVOKED"]
    /\ UNCHANGED <<fileVars, status, claimed, recoveryClaimed, audit, reconciled, callVars,
                   lateMoves>>

\* start_execution; a revocation between its check and its insert is the same
\* as one after the insert.
Start(x) ==
    /\ status[x] = "ABSENT"
    /\ auth[x] = "AUTHORIZED"
    /\ PlanValid(x)
    /\ status' = [status EXCEPT ![x] = "RUNNING"]
    /\ UNCHANGED <<fileVars, auth, claimed, recoveryClaimed, audit, reconciled, callVars,
                   lateMoves>>

\* complete_execution.  Its caller may hold a copy of the row that still says
\* RUNNING and then writes the status again.
Finalize(x) == status' = [status EXCEPT ![x] = Outcome(x)]

\* The end of execute and of recover_stale_execution.
Complete(c) ==
    /\ pc[c] = "complete"
    /\ IF AllAudited(job[c]) THEN Finalize(job[c]) ELSE UNCHANGED status
    /\ Finish(c)
    /\ NoFile
    /\ UNCHANGED <<auth, claimed, recoveryClaimed, audit, reconciled>>

\* POST /dedup/executions/{id}/complete
CompleteByHand(x) ==
    /\ status[x] = "RUNNING"
    /\ AllAudited(x)
    /\ Finalize(x)
    /\ UNCHANGED <<fileVars, auth, claimed, recoveryClaimed, audit, reconciled, callVars,
                   lateMoves>>
-----------------------------------------------------------------------------
(* execute                                                                 *)

\* An operator who asks for recovery has made sure that the execution will not
\* go on; nothing in the code does.
Excluded(x, others) == "haste" \notin scenario.disturbances
                       /\ \E c \in others : job[c] = x

\* Mutant: claimed_at is not looked at.
ClaimAgain(e, x) ==
    /\ e \in scenario.callers
    /\ pc[e] = "idle"
    /\ ~Excluded(x, Recoverers)
    /\ status[x] = "RUNNING"
    /\ claimed' = claimed \cup {x}
    /\ job' = [job EXCEPT ![e] = x]
    /\ Goto(e, "fresh")
    /\ NoFile
    /\ UNCHANGED <<auth, status, recoveryClaimed, audit, reconciled, at, pinned, result, todo>>

\* _claim_execution
Claim(e, x) ==
    /\ e \in scenario.callers
    /\ pc[e] = "idle"
    /\ ~Excluded(x, Recoverers)
    /\ status[x] = "RUNNING"
    /\ x \notin claimed
    /\ claimed' = claimed \cup {x}
    /\ job' = [job EXCEPT ![e] = x]
    /\ Goto(e, "fresh")
    /\ NoFile
    /\ UNCHANGED <<auth, status, recoveryClaimed, audit, reconciled, at, pinned, result, todo>>

\* The claim stays when the call refuses to go on.
CheckFresh(e) ==
    /\ pc[e] = "fresh"
    /\ IF \A d \in Planned(job[e]) : audit[job[e]][d] = None
       THEN /\ Goto(e, "auth")
            /\ at' = [at EXCEPT ![e] = 1]
            /\ UNCHANGED <<job, pinned, result, todo>>
       ELSE Finish(e)
    /\ NoFile /\ NoRow

\* Mutant: the authorization is looked at before the first action only.
CheckAuthOnce(e) ==
    /\ pc[e] = "auth"
    /\ IF at[e] > 1 \/ auth[job[e]] = "AUTHORIZED"
       THEN Goto(e, "plan") /\ UNCHANGED result
       ELSE Report(e, "PRECONDITION_FAILED")
    /\ NoFile /\ NoRow
    /\ UNCHANGED <<job, at, pinned, todo>>

\* _attempt_action: check_currency reads the authorization ...
CheckAuth(e) ==
    /\ pc[e] = "auth"
    /\ IF auth[job[e]] = "AUTHORIZED"
       THEN Goto(e, "plan") /\ UNCHANGED result
       ELSE Report(e, "PRECONDITION_FAILED")
    /\ NoFile /\ NoRow
    /\ UNCHANGED <<job, at, pinned, todo>>

\* Mutant: only the file to be moved is observed again.
CheckActionOnly(e) ==
    /\ pc[e] = "plan"
    /\ IF Unchanged(Action(e))
       THEN Goto(e, "pin") /\ UNCHANGED result
       ELSE Report(e, "PRECONDITION_FAILED")
    /\ NoFile /\ NoRow
    /\ UNCHANGED <<job, at, pinned, todo>>

\* ... and then observes the canonical document's file and the action's.
CheckPlan(e) ==
    /\ pc[e] = "plan"
    /\ IF CanonicalValid(job[e]) /\ Unchanged(Action(e))
       THEN Goto(e, "pin") /\ UNCHANGED result
       ELSE Report(e, "PRECONDITION_FAILED")
    /\ NoFile /\ NoRow
    /\ UNCHANGED <<job, at, pinned, todo>>

\* _pin_and_hash
Pin(e) ==
    /\ pc[e] = "pin"
    /\ IF Unchanged(Action(e))
       THEN /\ pinned' = [pinned EXCEPT ![e] = files[SourceOf[Action(e)]]]
            /\ Goto(e, "rename")
            /\ UNCHANGED result
       ELSE /\ Report(e, "PRECONDITION_FAILED")
            /\ UNCHANGED pinned
    /\ NoFile /\ NoRow
    /\ UNCHANGED <<job, at, todo>>

\* os.rename moves whatever is at the path by now.
Move(e) ==
    LET p == SourceOf[Action(e)] IN
    /\ files[p] # None
    /\ quarantine' = [quarantine EXCEPT ![job[e]][Action(e)] = files[p]]
    /\ files' = [files EXCEPT ![p] = None]
    /\ lateMoves' = IF auth[job[e]] = "REVOKED" THEN [lateMoves EXCEPT ![job[e]] = @ + 1]
                    ELSE lateMoves
    /\ Goto(e, "verify")
    /\ UNCHANGED <<content, touches, result>>

RenameFails(e) ==
    /\ files[SourceOf[Action(e)]] = None \/ "rename" \in scenario.disturbances
    /\ Report(e, "FAILED")
    /\ NoFile

Rename(e) ==
    /\ pc[e] = "rename"
    /\ Move(e) \/ RenameFails(e)
    /\ NoRow
    /\ UNCHANGED <<job, at, pinned, todo>>

\* Mutant: identity and path are compared, the content is not.
VerifiedIdentity(e) ==
    LET moved == quarantine[job[e]][Action(e)] IN
    /\ moved = pinned[e]
    /\ files[SourceOf[Action(e)]] = None

\* What arrived is the pinned file, still has the planned content, and is gone
\* from where it was.
Verified(e) ==
    LET moved == quarantine[job[e]][Action(e)] IN
    /\ moved = pinned[e]
    /\ content[moved] = Expected(Action(e))
    /\ files[SourceOf[Action(e)]] = None

Verify(e) ==
    /\ pc[e] = "verify"
    /\ Report(e, IF Verified(e) THEN "SUCCESS" ELSE "UNKNOWN")
    /\ NoFile /\ NoRow
    /\ UNCHANGED <<job, at, pinned, todo>>

\* The safety net of execute: an unexpected error leaves the outcome open.
Stumble(e) ==
    /\ "error" \in scenario.disturbances
    /\ pc[e] \in {"auth", "plan", "pin", "rename", "verify"}
    /\ Report(e, "UNKNOWN")
    /\ NoFile /\ NoRow
    /\ UNCHANGED <<job, at, pinned, todo>>

\* record_action_result; the table takes one row for an action.
Audit(x, d, r) == audit' = [audit EXCEPT ![x][d] = IF @ = None THEN r ELSE @]

\* Mutant: the executor goes on after a failure.
RecordAndGoOn(e) ==
    /\ pc[e] = "record"
    /\ Audit(job[e], Action(e), result[e])
    /\ Advance(e, "auth")
    /\ pinned' = [pinned EXCEPT ![e] = None]
    /\ result' = [result EXCEPT ![e] = None]
    /\ NoFile
    /\ UNCHANGED <<auth, status, claimed, recoveryClaimed, reconciled, job, todo>>

\* Whatever is recorded first stands; the executor then stops.
Record(e) ==
    /\ pc[e] = "record"
    /\ Audit(job[e], Action(e), result[e])
    /\ Advance(e, IF result[e] = "SUCCESS" /\ audit[job[e]][Action(e)] = None
                  THEN "auth" ELSE "rest")
    /\ pinned' = [pinned EXCEPT ![e] = None]
    /\ result' = [result EXCEPT ![e] = None]
    /\ NoFile
    /\ UNCHANGED <<auth, status, claimed, recoveryClaimed, reconciled, job, todo>>

\* The actions after the one that stopped it; a result that is there already
\* ends the call with an error.
RecordRest(e) ==
    /\ pc[e] = "rest"
    /\ Audit(job[e], Action(e), "NOT_ATTEMPTED")
    /\ IF audit[job[e]][Action(e)] = None
       THEN Advance(e, "rest") /\ UNCHANGED <<job, pinned, result, todo>>
       ELSE Finish(e)
    /\ NoFile
    /\ UNCHANGED <<auth, status, claimed, recoveryClaimed, reconciled>>

Execute(e) ==
    \/ \E x \in Executions : Claim(e, x)
    \/ CheckFresh(e) \/ CheckAuth(e) \/ CheckPlan(e) \/ Pin(e) \/ Rename(e) \/ Verify(e)
    \/ Stumble(e) \/ Record(e) \/ RecordRest(e)
-----------------------------------------------------------------------------
(* recover_stale_execution                                                 *)

\* _claim_for_recovery
ClaimRecovery(r, x) ==
    /\ r \in scenario.callers
    /\ pc[r] = "idle"
    /\ ~Excluded(x, Executors)
    /\ status[x] = "RUNNING"
    /\ x \notin recoveryClaimed
    /\ recoveryClaimed' = recoveryClaimed \cup {x}
    /\ job' = [job EXCEPT ![r] = x]
    /\ Goto(r, "survey")
    /\ NoFile
    /\ UNCHANGED <<auth, status, claimed, audit, reconciled, at, pinned, result, todo>>

\* With nothing to recover the call fails, and its claim stays.
Survey(r) ==
    LET unresolved == {d \in Planned(job[r]) : audit[job[r]][d] = None} IN
    /\ pc[r] = "survey"
    /\ IF unresolved # {}
       THEN /\ todo' = [todo EXCEPT ![r] = unresolved]
            /\ Goto(r, "observe")
            /\ UNCHANGED <<job, at, pinned, result>>
       ELSE Finish(r)
    /\ NoFile /\ NoRow

\* Mutant: a file that is gone was not touched either.
ObserveDifference(r) ==
    /\ pc[r] = "observe"
    /\ \E d \in todo[r] :
          /\ todo' = [todo EXCEPT ![r] = @ \ {d}]
          /\ at' = [at EXCEPT ![r] = CHOOSE n \in 1..Len(Actions[PlanOf[job[r]]]) :
                                         Actions[PlanOf[job[r]]][n] = d]
          /\ result' = [result EXCEPT ![r] =
                           IF files[SourceOf[d]] = None \/ Unchanged(d) THEN "NOT_ATTEMPTED"
                           ELSE "UNKNOWN"]
    /\ Goto(r, "recordObserved")
    /\ NoFile /\ NoRow
    /\ UNCHANGED <<job, pinned>>

Observe(r) ==
    /\ pc[r] = "observe"
    /\ \E d \in todo[r] :
          /\ todo' = [todo EXCEPT ![r] = @ \ {d}]
          /\ at' = [at EXCEPT ![r] = CHOOSE n \in 1..Len(Actions[PlanOf[job[r]]]) :
                                         Actions[PlanOf[job[r]]][n] = d]
          /\ result' = [result EXCEPT ![r] = IF Unchanged(d) THEN "NOT_ATTEMPTED"
                                             ELSE "UNKNOWN"]
    /\ Goto(r, "recordObserved")
    /\ NoFile /\ NoRow
    /\ UNCHANGED <<job, pinned>>

\* Mutant: a result that is there already ends the recovery with an error.
RecordOrRaise(r) ==
    /\ pc[r] = "recordObserved"
    /\ Audit(job[r], Action(r), result[r])
    /\ IF audit[job[r]][Action(r)] # None
       THEN Finish(r)
       ELSE /\ result' = [result EXCEPT ![r] = None]
            /\ Goto(r, IF todo[r] = {} THEN "complete" ELSE "observe")
            /\ UNCHANGED <<job, at, pinned, todo>>
    /\ NoFile
    /\ UNCHANGED <<auth, status, claimed, recoveryClaimed, reconciled>>

\* A result that is there already is left alone.
RecordObserved(r) ==
    /\ pc[r] = "recordObserved"
    /\ Audit(job[r], Action(r), result[r])
    /\ result' = [result EXCEPT ![r] = None]
    /\ Goto(r, IF todo[r] = {} THEN "complete" ELSE "observe")
    /\ NoFile
    /\ UNCHANGED <<auth, status, claimed, recoveryClaimed, reconciled, job, at, pinned, todo>>

Recover(r) ==
    \/ \E x \in Executions : ClaimRecovery(r, x)
    \/ Survey(r) \/ Observe(r) \/ RecordObserved(r)

\* reconcile_action: a person settles an unknown outcome, once, and the path has
\* to agree.
Reconcile(x, d, r) ==
    /\ audit[x][d] = "UNKNOWN"
    /\ reconciled[x][d] = None
    /\ IF r = "SUCCESS" THEN files[SourceOf[d]] = None ELSE Unchanged(d)
    /\ reconciled' = [reconciled EXCEPT ![x][d] = r]
    /\ NoFile
    /\ UNCHANGED <<auth, status, claimed, recoveryClaimed, audit, callVars>>
-----------------------------------------------------------------------------
(* Other programs, and calls that die                                      *)

Touch(disturbance) ==
    /\ disturbance \in scenario.disturbances
    /\ touches < scenario.touches
    /\ touches' = touches + 1
    /\ NoRow
    /\ UNCHANGED <<quarantine, callVars, lateMoves>>

Remove(p) ==
    /\ files[p] # None
    /\ Touch("remove")
    /\ files' = [files EXCEPT ![p] = None]
    /\ UNCHANGED content

InPlace(i) == \/ \E p \in Paths : files[p] = i
              \/ \E x \in Executions, d \in Docs : quarantine[x][d] = i

\* A new file takes the path.
Replace(p, i) ==
    /\ ~InPlace(i)
    /\ Touch("replace")
    /\ files' = [files EXCEPT ![p] = i]
    /\ UNCHANGED content

Write(p, c) ==
    /\ files[p] # None
    /\ content[files[p]] # c
    /\ Touch("write")
    /\ content' = [content EXCEPT ![files[p]] = c]
    /\ UNCHANGED files

Die(c) ==
    /\ c \in scenario.mortal
    /\ pc[c] # "idle"
    /\ Finish(c)
    /\ NoFile /\ NoRow

OtherPrograms == \E p \in Paths : \/ Remove(p)
                                  \/ \E i \in Inodes : Replace(p, i)
                                  \/ \E c \in Contents : Write(p, c)

Operators == \E x \in Executions :
    \/ AskAuthorize(x) \/ Grant(x) \/ Revoke(x) \/ Start(x) \/ CompleteByHand(x)
    \/ \E d \in Planned(x), r \in Reconcilable : Reconcile(x, d, r)

Next ==
    /\ \/ \E e \in Executors : Execute(e)
       \/ \E r \in Recoverers : Recover(r)
       \/ \E c \in Callers : Complete(c) \/ Die(c)
       \/ Operators
       \/ OtherPrograms
    /\ UNCHANGED scenario

\* The steps of a call that is under way.
Continue(c) ==
    /\ pc[c] # "idle"
    /\ \/ c \in Executors /\ Execute(c)
       \/ c \in Recoverers /\ Recover(c)
       \/ Complete(c)
    /\ UNCHANGED scenario

\* A call that has started is run to its end by the server, unless it dies.
Fairness == \A c \in Callers : WF_vars(Continue(c))

Spec == Init /\ [][Next]_vars /\ Fairness
-----------------------------------------------------------------------------
(* Properties                                                              *)

NothingHappened == {"PRECONDITION_FAILED", "FAILED", "NOT_ATTEMPTED"}

\* filesystem_mutation_occurred = False is never recorded of a file that the
\* execution has moved, or moves afterwards.
DenialIsTrue ==
    \A x \in Executions : \A d \in Planned(x) :
        audit[x][d] \in NothingHappened => quarantine[x][d] = None

\* What a person puts in place of UNKNOWN: SUCCESS if an execution has the file,
\* maybe under another document of its path, FAILED if this one has not.
ReconciliationTruthful ==
    \A x \in Executions : \A d \in Planned(x) :
        /\ reconciled[x][d] = "SUCCESS" =>
              \E y \in Executions, b \in Docs : quarantine[y][b] = FileAt[SourceOf[d]]
        /\ reconciled[x][d] = "FAILED" => quarantine[x][d] = None

\* The audits tell the truth about the moves, whatever is removed or rewritten
\* and wherever executor and recovery die, as long as nobody asks for the recovery
\* of an execution that still goes on or puts a file back for recovery to find;
\* so does what reconcile_action accepts, if no other program was there.
AuditTruthful ==
    /\ scenario.disturbances \cap {"haste", "replace"} = {} => DenialIsTrue
    /\ touches = 0 => ReconciliationTruthful

\* What is recorded as SUCCESS lies in the execution's quarantine and is what
\* the plan was made for: a file put at the path between the pin and the rename
\* is never taken for it, also when a recovery runs at the same time.
SuccessExact ==
    \A x \in Executions : \A d \in Planned(x) :
        audit[x][d] = "SUCCESS" =>
            /\ quarantine[x][d] # None
            /\ content[quarantine[x][d]] = Expected(d)

\* An execution moves files in the order of its plan and nothing after the first
\* action that was not a recorded success, whoever recorded its result.
StopsAtFirstFailure ==
    \A x \in Executions : \A m, n \in 1..Len(Actions[PlanOf[x]]) :
        m < n /\ quarantine[x][Actions[PlanOf[x]][n]] # None
        => audit[x][Actions[PlanOf[x]][m]] = "SUCCESS"

\* The claim gives an execution to one call of execute, ever: of two that race,
\* one is refused, so no two of them move files for the same plan.
OneExecutor ==
    \A x \in Executions : \A e, f \in Executors :
        job[e] = x /\ job[f] = x => e = f

\* The hypotheses of LastCopySurvives: the documents of a plan have the content
\* of the canonical one, and files of their own,
TrueCopies ==
    \A x \in scenario.executions :
        LET k == Canonical[PlanOf[x]] IN
        /\ FileAt[SourceOf[k]] # None
        /\ \A d \in Planned(x) : SourceOf[d] # SourceOf[k] /\ Expected(d) = Expected(k)

\* and plans that keep different documents are not executed at the same time,
\* which nothing in the code prevents.
NoRivalPlans ==
    \/ \A x, y \in scenario.executions : Canonical[PlanOf[x]] = Canonical[PlanOf[y]]
    \/ \A e, f \in scenario.callers \cap Executors : e = f

\* While no other program touches a file, every plan's content keeps one copy
\* outside the quarantine: plans may disagree about which copy to keep, and
\* executors may die in the middle, but each checks the canonical file again.
LastCopySurvives ==
    touches = 0 /\ TrueCopies /\ NoRivalPlans =>
        \A x \in scenario.executions : \E p \in Paths :
            /\ files[p] # None
            /\ content[files[p]] = Expected(Canonical[PlanOf[x]])

\* Revoking an authorization stops its execution: the move already past its
\* check may still happen, and no other.
RevocationStops == \A x \in Executions : lateMoves[x] <= 1

\* A final status stays, although executor, recovery and an operator may each
\* finalize from a copy of the row that still says RUNNING; proved, not run.
FinalStatusStable ==
    [][\A x \in Executions : status[x] \in FinalStatus => status'[x] = status[x]]_vars

\* Executor and recovery never leave an execution stuck between them: if no call
\* dies, an execution that was claimed becomes final, and a recovery that is not
\* cut off gives every action a result, whatever became of the executor.
ExecutionsFinish ==
    \A x \in Executions :
        /\ (x \in claimed /\ scenario.mortal = {}) ~> (status[x] \in FinalStatus)
        /\ (x \in recoveryClaimed /\ scenario.mortal \subseteq Executors) ~> AllAudited(x)
=============================================================================
