--------------------------- MODULE SourceIngestion ---------------------------
(***************************************************************************)
(* The source half of one ingestion batch: workers claim its selected      *)
(* SourceInstance rows, read loose files, walk archives, resolve every     *)
(* leaf to a ContentIdentityGroup, and a reconciler completes the batch    *)
(* when its report says that the source work is exhausted.                 *)
(*                                                                         *)
(*   WorkerClaimService           Claim, ReadClaim, Release                *)
(*   IdentityResolutionService    ReadFile, Find .. Assign, Record         *)
(*   ArchiveProcessingService     Admit, Extract, Visit, Insert, Settle,   *)
(*                                GiveBack                                 *)
(*   ContentIdentityService       Find, Create, Assign                     *)
(*   BatchReportService           ReportAttempted .. ReportSuccessful      *)
(*   BatchCompletionReconciliationService                   Decide         *)
(*                                                                         *)
(* One action is one transaction or one access to a file.  What becomes of *)
(* a group after EXTRACTED is the business of ContentPipeline; here it is  *)
(* two environment actions, an attempt and then a terminal state.          *)
(***************************************************************************)
EXTENDS BatchStates, Integers, Sequences, FiniteSets, Functions

CONSTANTS
    Files,        \* loose files among the rows selected for the batch
    Archives,     \* archives among them
    Members,      \* member rows that extraction may create
    Groups,       \* contents, one ContentIdentityGroup each
    Workers,      \* concurrent run_once invocations
    None,         \* SQL NULL
    Walk,         \* [Archives -> Seq(Members)]: members in the order visited
    Kind,         \* [Members -> MemberKinds]
    ContentOf,    \* [Files \cup Members -> SUBSET Groups]: what a read of them
                  \* may find; a file on the drive can change between two reads
    CountedAsArchive,  \* roots with source_category ARCHIVE
    Eligibility,  \* [Files \cup Members -> Eligibilities], by suffix
    Suffix,       \* [Files \cup Members -> suffixes], in the workspace's file names
    Declared,     \* [Archives -> Nat]: d0_declared_size_bytes
    Actual,       \* [Archives -> Nat]: bytes that extraction writes
    Scenarios     \* the circumstances to consider, see ScopeAssumption

Roots == Files \cup Archives
Items == Files \cup Members

\* A nested archive at max_depth is refused before it is opened.
MemberKinds == {"leaf", "archive", "tooDeep"}

Eligibilities == {"ELIGIBLE", "EXCLUDED", "UNSUPPORTED"}

GroupStates == {"ABSENT", "EXTRACTED", "EXCLUDED", "UNSUPPORTED", "INGESTED", "FAILED"}

TerminalStates == {"EXCLUDED", "UNSUPPORTED", "INGESTED", "FAILED"}

\* outcome and, of a failure, whether it is retryable
Outcomes == {"SUCCEEDED", "RETRYABLE", "DURABLE"}

FaultKinds ==
    {"read",      \* a file cannot be read
     "extract",   \* an archive cannot be opened, or a member not be read
     "write",     \* the workspace cannot be written
     "control"}   \* operators pause, resume and abort the batch

\* The files a group's bytes may be kept in: a copy of them with another suffix
\* has another file.
WorkspaceFiles == Groups \X {Suffix[i] : i \in Items}

Steps == {"idle", "claimed", "read", "find", "create", "write", "writing", "assign",
          "admit", "extract", "visit", "insert", "settle", "giveBack",
          "record", "release"}

ReportSteps == {"idle", "terminal", "successful", "decide"}

\* The generation of an object that is not loaded, or was expired.
Unloaded == -1

ASSUME RowsAssumption ==
    /\ Files \cap Archives = {}
    /\ Roots \cap Members = {}
    /\ IsFiniteSet(Roots)
    /\ IsFiniteSet(Workers)
    /\ None \notin Roots \cup Members \cup Groups \cup Workers
\* The category comes from the normalized suffix and includes .gz and .rar; the
\* claims compare the raw suffix with .zip and .7z.
ASSUME CategoryAssumption ==
    Archives \subseteq CountedAsArchive /\ CountedAsArchive \subseteq Roots
\* A member's row is named by its archive's path and its own.
ASSUME WalkAssumption ==
    /\ Walk \in [Archives -> Seq(Members)]
    /\ \A a, b \in Archives : a # b => Range(Walk[a]) \cap Range(Walk[b]) = {}
    /\ Kind \in [Members -> MemberKinds]
ASSUME ContentAssumption ==
    /\ ContentOf \in [Items -> SUBSET Groups \ {{}}]
    /\ Eligibility \in [Items -> Eligibilities]
ASSUME SizesAssumption == Declared \in [Archives -> Nat] /\ Actual \in [Archives -> Nat]

\* A scenario names the rows selected, max_extracted_bytes, the steps in which a
\* live worker may outlast its lease and what the environment may do; it bounds
\* the claims granted on one row and the deaths of workers.
ASSUME ScopeAssumption ==
    \A s \in Scenarios :
        /\ s.roots \subseteq Roots
        /\ s.envelope \in Nat \cup {None}
        /\ s.stalls \subseteq Steps \ {"idle"}
        /\ s.faults \subseteq FaultKinds
        /\ s.claims \in Nat
        /\ s.deaths \in Nat

VARIABLES
    \* source_instances
    identity,        \* content_identity_group_id, of roots and members
    rows,            \* the member rows there are
    claimedBy, expired, claimGeneration,
    \* content_identity_groups, and workspace files
    groupState, content,
    cut,             \* the worker that truncated a file which has not had all of
                     \* its bytes since, or None
    \* ingestion_attempts, of roots and of groups
    attempts, groupAttempts,
    \* ingestion_batches
    status, extractedBytes,
    \* the workers: step, row, generation to fence with, position in the walk,
    \* content read, bytes reserved, outcome to record
    pc, inst, gen, at, read, held, result,
    \* the reconciler's report in progress
    report, attempted, terminal, successful,
    \* history: bytes of the extractions that were settled; worker deaths
    settled, crashes,
    \* the scenario this behaviour belongs to
    scenario

claimVars == <<claimedBy, expired, claimGeneration>>
groupVars == <<groupState, content, cut, groupAttempts>>
batchVars == <<status, extractedBytes, settled>>
localVars == <<inst, gen, at, read, held, result>>
reportVars == <<report, attempted, terminal, successful>>
vars == <<identity, rows, claimVars, groupVars, attempts, batchVars, pc, localVars,
          reportVars, crashes, scenario>>

RowTypeOK ==
    /\ identity \in [Roots \cup Members -> Groups \cup {None}]
    /\ rows \subseteq Members
    /\ claimedBy \in [Roots -> Workers \cup {None}]
    /\ expired \subseteq Roots
    /\ claimGeneration \in [Roots -> Nat]
    /\ attempts \subseteq Roots \X Outcomes

GroupTypeOK ==
    /\ groupState \in [Groups -> GroupStates]
    /\ content \subseteq WorkspaceFiles
    /\ cut \in [WorkspaceFiles -> Workers \cup {None}]
    /\ groupAttempts \subseteq Groups

BatchTypeOK ==
    /\ status \in BatchStatus
    /\ extractedBytes \in Int
    /\ settled \in Nat
    /\ report \in ReportSteps
    /\ attempted \in Nat
    /\ terminal \in Nat
    /\ successful \in Nat

WorkerTypeOK ==
    /\ pc \in [Workers -> Steps]
    /\ inst \in [Workers -> Roots \cup {None}]
    /\ gen \in [Workers -> Nat \cup {Unloaded}]
    /\ at \in [Workers -> Nat]
    /\ read \in [Workers -> Groups \cup {None}]
    /\ held \in [Workers -> Nat]
    /\ result \in [Workers -> Outcomes \cup {None}]
    /\ crashes \in Nat

TypeOK == RowTypeOK /\ GroupTypeOK /\ BatchTypeOK /\ WorkerTypeOK /\ scenario \in Scenarios

\* create_batch has materialized the selected rows, and start() was applied.
Init ==
    /\ scenario \in Scenarios
    /\ identity = [i \in Roots \cup Members |-> None]
    /\ rows = {}
    /\ claimedBy = [i \in Roots |-> None]
    /\ expired = {}
    /\ claimGeneration = [i \in Roots |-> 0]
    /\ groupState = [g \in Groups |-> "ABSENT"]
    /\ content = {}
    /\ cut = [f \in WorkspaceFiles |-> None]
    /\ attempts = {}
    /\ groupAttempts = {}
    /\ status = "RUNNING"
    /\ extractedBytes = 0
    /\ settled = 0
    /\ pc = [w \in Workers |-> "idle"]
    /\ inst = [w \in Workers |-> None]
    /\ gen = [w \in Workers |-> Unloaded]
    /\ at = [w \in Workers |-> 0]
    /\ read = [w \in Workers |-> None]
    /\ held = [w \in Workers |-> 0]
    /\ result = [w \in Workers |-> None]
    /\ report = "idle"
    /\ attempted = 0
    /\ terminal = 0
    /\ successful = 0
    /\ crashes = 0
-----------------------------------------------------------------------------
(* Helpers                                                                 *)

Goto(w, step) == pc' = [pc EXCEPT ![w] = step]

\* The leaf that w resolves: the claimed file, or the member it has come to.
Item(w) == IF inst[w] \in Files THEN inst[w] ELSE Walk[inst[w]][at[w]]

\* A row of category ARCHIVE counts as processed once an attempt has succeeded.
Processed(i) == <<i, "SUCCEEDED">> \in attempts

\* What both claim queries look for among the batch's root rows.
Claimable(i) ==
    /\ identity[i] = None
    /\ i \in Archives => ~Processed(i)
    /\ claimedBy[i] = None \/ i \in expired

MyGeneration(w) == IF gen[w] = Unloaded THEN claimGeneration[inst[w]] ELSE gen[w]

\* Mutant: the generation is not compared.
NotFenced(w) == TRUE

\* The release's WHERE clause on claim_generation matches.
Fenced(w) == claimGeneration[inst[w]] = MyGeneration(w)

\* initial_pipeline_state_for_eligibility
InitialState(e) == IF e = "ELIGIBLE" THEN "EXTRACTED" ELSE e

\* Only eligible bytes are kept in the workspace, before the row is assigned.
AfterGroup(w) == IF Eligibility[Item(w)] = "ELIGIBLE" THEN "write" ELSE "assign"

\* The invocation is over: its locals are gone.
Finish(w) ==
    /\ Goto(w, "idle")
    /\ inst' = [inst EXCEPT ![w] = None]
    /\ gen' = [gen EXCEPT ![w] = Unloaded]
    /\ at' = [at EXCEPT ![w] = 0]
    /\ read' = [read EXCEPT ![w] = None]
    /\ held' = [held EXCEPT ![w] = 0]
    /\ result' = [result EXCEPT ![w] = None]

\* The attempt on an archive failed: its reservation is given back next.
FailArchive(w, outcome) ==
    /\ result' = [result EXCEPT ![w] = outcome]
    /\ Goto(w, "giveBack")

\* Every attempt at an archive deletes and fills the same staging tree.
StagingShared(w) == \E v \in Workers \ {w} : inst[v] = inst[w]

CannotRead(w) == "extract" \in scenario.faults \/ StagingShared(w)
-----------------------------------------------------------------------------
(* Claims                                                                  *)

\* Claim of a file (identity resolution) or an archive; run_once passes over
\* the rows it has had before, so any claimable row may be the next one.
Claim(w, i) ==
    /\ pc[w] = "idle"
    /\ status = "RUNNING"
    /\ Claimable(i)
    /\ claimGeneration[i] < scenario.claims
    /\ claimedBy' = [claimedBy EXCEPT ![i] = w]
    /\ expired' = expired \ {i}
    /\ claimGeneration' = [claimGeneration EXCEPT ![i] = @ + 1]
    /\ inst' = [inst EXCEPT ![w] = i]
    /\ Goto(w, "claimed")
    /\ UNCHANGED <<identity, rows, groupVars, attempts, batchVars, gen, at, read, held, result,
                   reportVars, crashes>>

\* The db.get after its commit, a transaction of its own.
ReadClaim(w) ==
    /\ pc[w] = "claimed"
    /\ gen' = [gen EXCEPT ![w] = claimGeneration[inst[w]]]
    /\ Goto(w, IF inst[w] \in Files THEN "read" ELSE "admit")
    /\ UNCHANGED <<identity, rows, claimVars, groupVars, attempts, batchVars, inst, at,
                   read, held, result, reportVars, crashes>>

\* release_source_instance_claim
Release(w) ==
    /\ pc[w] = "release"
    /\ IF Fenced(w)
       THEN /\ claimedBy' = [claimedBy EXCEPT ![inst[w]] = None]
            /\ expired' = expired \ {inst[w]}
       ELSE UNCHANGED <<claimedBy, expired>>
    /\ Finish(w)
    /\ UNCHANGED <<identity, rows, claimGeneration, groupVars, attempts, batchVars,
                   reportVars, crashes>>
-----------------------------------------------------------------------------
(* From bytes to an identity                                               *)

\* The bytes of w's leaf are at hand.
HasRead(w) == \E g \in ContentOf[Item(w)] : read' = [read EXCEPT ![w] = g]

\* The one read of a loose file.
ReadFile(w) ==
    /\ pc[w] = "read"
    /\ \/ HasRead(w) /\ Goto(w, "find") /\ UNCHANGED result
       \/ /\ "read" \in scenario.faults
          /\ result' = [result EXCEPT ![w] = "RETRYABLE"]
          /\ Goto(w, "record")
          /\ UNCHANGED read
    /\ UNCHANGED <<identity, rows, claimVars, groupVars, attempts, batchVars, inst, gen,
                   at, held, reportVars, crashes>>

\* get_or_create_group looks for the group of the bytes at hand; those of a
\* member are read from the staging tree first.
Find(w) ==
    /\ pc[w] = "find"
    /\ \/ /\ IF inst[w] \in Files THEN UNCHANGED read ELSE HasRead(w)
          /\ Goto(w, IF groupState[read'[w]] = "ABSENT" THEN "create" ELSE AfterGroup(w))
          /\ UNCHANGED result
       \/ /\ inst[w] \in Archives
          /\ CannotRead(w)
          /\ FailArchive(w, "RETRYABLE")
          /\ UNCHANGED read
    /\ UNCHANGED <<identity, rows, claimVars, groupVars, attempts, batchVars, inst, gen,
                   at, held, reportVars, crashes>>

\* The insert; the loser of a race rolls back, which expires the claimed row,
\* and takes the winner's group.  Archive processing has its generation in a
\* local, identity resolution reads it from the row again.
Create(w) ==
    LET g == read[w] IN
    /\ pc[w] = "create"
    /\ IF groupState[g] = "ABSENT"
       THEN /\ groupState' = [groupState EXCEPT ![g] = InitialState(Eligibility[Item(w)])]
            /\ UNCHANGED gen
       ELSE /\ gen' = IF inst[w] \in Files THEN [gen EXCEPT ![w] = Unloaded] ELSE gen
            /\ UNCHANGED groupState
    /\ Goto(w, AfterGroup(w))
    /\ UNCHANGED <<identity, rows, claimVars, content, cut, groupAttempts, attempts,
                   batchVars, inst, at, read, held, result, reportVars, crashes>>

\* The file that w's leaf is written to.
Target(w) == <<read[w], Suffix[Item(w)]>>

\* The workspace's disk is full: the OSError ends the run of identity resolution,
\* and fails the attempt of archive processing.
CannotWrite(w) ==
    /\ "write" \in scenario.faults
    /\ IF inst[w] \in Files THEN Goto(w, "release") /\ UNCHANGED result
                           ELSE FailArchive(w, "RETRYABLE")

\* write_workspace_content opens the file, which truncates what is there ...
BeginWrite(w) ==
    /\ pc[w] = "write"
    /\ \/ /\ content' = content \cup {Target(w)}
          /\ cut' = [cut EXCEPT ![Target(w)] = w]
          /\ Goto(w, "writing")
          /\ UNCHANGED result
       \/ CannotWrite(w) /\ UNCHANGED <<content, cut>>
    /\ UNCHANGED <<identity, rows, claimVars, groupState, groupAttempts, attempts,
                   batchVars, inst, gen, at, read, held, reportVars, crashes>>

\* ... and puts the bytes into it.  Where another worker has truncated the file
\* meanwhile they may all have come after that, or not.
WriteContent(w) ==
    /\ pc[w] = "writing"
    /\ \/ /\ \/ cut' = [cut EXCEPT ![Target(w)] = None]
             \/ cut[Target(w)] \notin {w, None} /\ UNCHANGED cut
          /\ Goto(w, "assign")
          /\ UNCHANGED result
       \/ CannotWrite(w) /\ UNCHANGED cut
    /\ UNCHANGED <<identity, rows, claimVars, groupState, content, groupAttempts, attempts,
                   batchVars, inst, gen, at, read, held, reportVars, crashes>>

\* WHERE content_identity_group_id IS NULL
Unassigned(i) == identity[i] = None

\* assign_content_identity.  Its ValueError ends the run of identity
\* resolution, and fails the attempt of archive processing.
Assign(w) ==
    /\ pc[w] = "assign"
    /\ IF Unassigned(Item(w))
       THEN /\ identity' = [identity EXCEPT ![Item(w)] = read[w]]
            /\ IF inst[w] \in Files
               THEN /\ result' = [result EXCEPT ![w] = "SUCCEEDED"]
                    /\ Goto(w, "record")
                    /\ UNCHANGED at
               ELSE /\ at' = [at EXCEPT ![w] = @ + 1]
                    /\ Goto(w, "visit")
                    /\ UNCHANGED result
       ELSE /\ IF inst[w] \in Files
               THEN Goto(w, "release") /\ UNCHANGED result
               ELSE FailArchive(w, "RETRYABLE")
            /\ UNCHANGED <<identity, at>>
    /\ UNCHANGED <<rows, claimVars, groupVars, attempts, batchVars, inst, gen, read, held,
                   reportVars, crashes>>

\* record_identity_resolution_attempt
Record(w) ==
    /\ pc[w] = "record"
    /\ attempts' = attempts \cup {<<inst[w], result[w]>>}
    /\ Goto(w, "release")
    /\ UNCHANGED <<identity, rows, claimVars, groupVars, batchVars, localVars, reportVars,
                   crashes>>
-----------------------------------------------------------------------------
(* Archives                                                                *)

\* _preflight_admit; run_once passes no resource guard.
Admit(w) ==
    LET n == Declared[inst[w]] IN
    /\ pc[w] = "admit"
    /\ \/ /\ status = "RUNNING"
          /\ scenario.envelope = None
          /\ Goto(w, "extract")
          /\ UNCHANGED <<held, extractedBytes>>
       \/ /\ status = "RUNNING"
          /\ scenario.envelope # None
          /\ extractedBytes + n <= scenario.envelope
          /\ extractedBytes' = extractedBytes + n
          /\ held' = [held EXCEPT ![w] = n]
          /\ Goto(w, "extract")
       \/ /\ \/ status # "RUNNING"
             \/ scenario.envelope # None /\ extractedBytes + n > scenario.envelope
          /\ Goto(w, "release")
          /\ UNCHANGED <<held, extractedBytes>>
    /\ UNCHANGED <<identity, rows, claimVars, groupVars, attempts, status, settled, inst,
                   gen, at, read, result, reportVars, crashes>>

\* The archive itself is extracted into its staging tree.
Extract(w) ==
    /\ pc[w] = "extract"
    /\ at' = [at EXCEPT ![w] = 1]
    /\ \/ Goto(w, "visit") /\ UNCHANGED result
       \/ CannotRead(w) /\ FailArchive(w, "RETRYABLE")
    /\ UNCHANGED <<identity, rows, claimVars, groupVars, attempts, batchVars, inst, gen,
                   read, held, reportVars, crashes>>

\* What follows the lookup or the insert of member m's row.
Enter(w, m) ==
    \/ /\ Kind[m] = "leaf"
       /\ Goto(w, "find")
       /\ UNCHANGED <<at, result>>
    \/ /\ Kind[m] = "archive"
       /\ \/ /\ at' = [at EXCEPT ![w] = @ + 1]
             /\ Goto(w, "visit")
             /\ UNCHANGED result
          \/ CannotRead(w) /\ FailArchive(w, "RETRYABLE") /\ UNCHANGED at
    \/ /\ Kind[m] = "tooDeep"
       /\ FailArchive(w, "DURABLE")
       /\ UNCHANGED at

\* Mutant: a member whose row exists is taken for done.
DoneWhenThere(m) == m \in rows

\* A leaf that an earlier attempt resolved is skipped.
Done(m) == m \in rows /\ Kind[m] = "leaf" /\ identity[m] # None

\* The next member of the walk: does it have a row already?
Visit(w) ==
    /\ pc[w] = "visit"
    /\ \/ /\ at[w] > Len(Walk[inst[w]])
          /\ Goto(w, "settle")
          /\ UNCHANGED <<at, result>>
       \/ /\ at[w] <= Len(Walk[inst[w]])
          /\ LET m == Walk[inst[w]][at[w]] IN
             \/ /\ Done(m)
                /\ at' = [at EXCEPT ![w] = @ + 1]
                /\ UNCHANGED <<pc, result>>
             \/ ~Done(m) /\ m \in rows /\ Enter(w, m)
             \/ m \notin rows /\ Goto(w, "insert") /\ UNCHANGED <<at, result>>
    /\ UNCHANGED <<identity, rows, claimVars, groupVars, attempts, batchVars, inst, gen,
                   read, held, reportVars, crashes>>

\* create_instance.  Another worker's row for the same member breaks the
\* UNIQUE index in the flush: the session takes no further statement, so
\* nothing is recorded or given back and the claim is left to its lease.
Insert(w) ==
    LET m == Walk[inst[w]][at[w]] IN
    /\ pc[w] = "insert"
    /\ \/ /\ m \notin rows
          /\ rows' = rows \cup {m}
          /\ Enter(w, m)
          /\ UNCHANGED <<inst, gen, read, held>>
       \/ /\ m \in rows
          /\ Finish(w)
          /\ UNCHANGED rows
    /\ UNCHANGED <<identity, claimVars, groupVars, attempts, batchVars, reportVars,
                   crashes>>

\* Mutant: the reservation is not deducted when the actual bytes are added.
TotalWithReservation(w) == extractedBytes + Actual[inst[w]]

\* extracted_bytes_consumed + (actual - estimated)
SettledTotal(w) == extractedBytes + Actual[inst[w]] - held[w]

\* _reconcile_extracted_bytes: an UPDATE that breaks the CHECK on the column
\* aborts the transaction, and with it every statement that follows.
Settle(w) ==
    /\ pc[w] = "settle"
    /\ IF scenario.envelope = None \/ SettledTotal(w) \in 0..scenario.envelope
       THEN /\ extractedBytes' = IF scenario.envelope = None THEN extractedBytes
                                 ELSE SettledTotal(w)
            /\ settled' = IF scenario.envelope = None THEN settled
                          ELSE settled + Actual[inst[w]]
            /\ held' = [held EXCEPT ![w] = 0]
            /\ result' = [result EXCEPT ![w] = "SUCCEEDED"]
            /\ Goto(w, "record")
            /\ UNCHANGED <<inst, gen, at, read>>
       ELSE /\ Finish(w)
            /\ UNCHANGED <<extractedBytes, settled>>
    /\ UNCHANGED <<identity, rows, claimVars, groupVars, attempts, status, reportVars,
                   crashes>>

\* _release_extracted_bytes_reservation, after which the failure is recorded.
GiveBack(w) ==
    /\ pc[w] = "giveBack"
    /\ extractedBytes' = extractedBytes - held[w]
    /\ held' = [held EXCEPT ![w] = 0]
    /\ Goto(w, "record")
    /\ UNCHANGED <<identity, rows, claimVars, groupVars, attempts, status, settled, inst,
                   gen, at, read, result, reportVars, crashes>>
-----------------------------------------------------------------------------
(* The report and the completion of the batch                              *)

\* Mutant: roots without an identity are not counted as attempted.
AttemptedResolved(i) ==
    identity[i] # None /\ \E o \in Outcomes : <<i, o>> \in attempts

AttemptedRoot(i) ==
    \/ \E o \in Outcomes : <<i, o>> \in attempts
    \/ identity[i] # None /\ identity[i] \in groupAttempts

TerminalRoot(i) ==
    IF i \in CountedAsArchive
    THEN Processed(i) \/ <<i, "DURABLE">> \in attempts
    ELSE identity[i] # None /\ groupState[identity[i]] \in TerminalStates

SuccessfulRoot(i) ==
    IF i \in CountedAsArchive THEN Processed(i)
    ELSE identity[i] # None /\ groupState[identity[i]] = "INGESTED"

Selected == Cardinality(scenario.roots)

RootsThat(P(_)) == Cardinality({i \in scenario.roots : P(i)})

\* check_and_complete reads a RUNNING batch, and generate_report counts the
\* attempted rows; each count is a query with a snapshot of its own.
ReportAttempted ==
    /\ report = "idle"
    /\ status = "RUNNING"
    /\ attempted' = RootsThat(AttemptedRoot)
    /\ report' = "terminal"
    /\ UNCHANGED <<identity, rows, claimVars, groupVars, attempts, batchVars, pc,
                   localVars, terminal, successful, crashes>>

\* The terminal files.
ReportTerminal ==
    /\ report = "terminal"
    /\ terminal' = Cardinality({i \in scenario.roots \ CountedAsArchive : TerminalRoot(i)})
    /\ report' = "successful"
    /\ UNCHANGED <<identity, rows, claimVars, groupVars, attempts, batchVars, pc,
                   localVars, attempted, successful, crashes>>

\* The successful files, and both counts of archives.
ReportSuccessful ==
    /\ report = "successful"
    /\ successful' = RootsThat(SuccessfulRoot)
    /\ terminal' = terminal + Cardinality({i \in scenario.roots \cap CountedAsArchive : TerminalRoot(i)})
    /\ report' = "decide"
    /\ UNCHANGED <<identity, rows, claimVars, groupVars, attempts, batchVars, pc,
                   localVars, attempted, crashes>>

\* _assert_invariants
CountsAgree == attempted <= Selected /\ terminal <= attempted /\ successful <= terminal

\* Mutant: rows that nobody has tried yet are forgotten.
NothingPending == terminal = attempted

\* source_work_exhausted
Exhausted == attempted = Selected /\ terminal = attempted

\* A contradiction raises BatchReportInvariantViolation; an exhausted batch is
\* completed if it is still RUNNING.
Decide ==
    /\ report = "decide"
    /\ status' = IF CountsAgree /\ Exhausted /\ status = "RUNNING" THEN "COMPLETED"
                 ELSE status
    /\ report' = "idle"
    /\ attempted' = 0 /\ terminal' = 0 /\ successful' = 0
    /\ UNCHANGED <<identity, rows, claimVars, groupVars, attempts, extractedBytes, settled,
                   pc, localVars, crashes>>
-----------------------------------------------------------------------------
(* The environment                                                         *)

\* claimed_at falls behind the lease; a live holder is overtaken only in one
\* of the steps of scenario.stalls.
LeaseExpires(i) ==
    /\ claimedBy[i] # None
    /\ i \notin expired
    /\ inst[claimedBy[i]] = i => pc[claimedBy[i]] \in scenario.stalls
    /\ expired' = expired \cup {i}
    /\ UNCHANGED <<identity, rows, claimedBy, claimGeneration, groupVars, attempts,
                   batchVars, pc, localVars, reportVars, crashes>>

\* The process dies between two transactions.
Crash(w) ==
    /\ pc[w] # "idle"
    /\ crashes < scenario.deaths
    /\ crashes' = crashes + 1
    /\ Finish(w)
    /\ UNCHANGED <<identity, rows, claimVars, groupVars, attempts, batchVars, reportVars>>

\* The pipeline records an attempt on an EXTRACTED group ...
AttemptGroup(g) ==
    /\ groupState[g] = "EXTRACTED"
    /\ g \notin groupAttempts
    /\ groupAttempts' = groupAttempts \cup {g}
    /\ UNCHANGED <<identity, rows, claimVars, groupState, content, cut, attempts, batchVars,
                   pc, localVars, reportVars, crashes>>

\* ... before it settles on a terminal state; without a file it fails.  With one it
\* may be ingested, also from a file that is not whole.
SettleGroup(g) ==
    /\ groupState[g] = "EXTRACTED"
    /\ g \in groupAttempts
    /\ \E s \in {"INGESTED", "FAILED"} :
          /\ s = "INGESTED" => \E f \in content : f[1] = g
          /\ groupState' = [groupState EXCEPT ![g] = s]
    /\ UNCHANGED <<identity, rows, claimVars, content, cut, groupAttempts, attempts,
                   batchVars, pc, localVars, reportVars, crashes>>

\* A transition of BatchControl other than its completions.
ControlBatch(s) ==
    /\ "control" \in scenario.faults
    /\ s # "COMPLETED"
    /\ LegalTransition(status, s)
    /\ status' = s
    /\ UNCHANGED <<identity, rows, claimVars, groupVars, attempts, extractedBytes, settled,
                   pc, localVars, reportVars, crashes>>
-----------------------------------------------------------------------------
WorkerStep(w) ==
    \/ ReadClaim(w) \/ ReadFile(w) \/ Find(w) \/ Create(w) \/ BeginWrite(w)
    \/ WriteContent(w) \/ Assign(w)
    \/ Admit(w) \/ Extract(w) \/ Visit(w) \/ Insert(w) \/ Settle(w) \/ GiveBack(w)
    \/ Record(w) \/ Release(w)

Reconcile == ReportAttempted \/ ReportTerminal \/ ReportSuccessful \/ Decide

Next ==
    /\ \/ \E w \in Workers : WorkerStep(w) \/ Crash(w)
       \/ \E w \in Workers, i \in scenario.roots : Claim(w, i)
       \/ Reconcile
       \/ \E i \in Roots : LeaseExpires(i)
       \/ \E g \in Groups : AttemptGroup(g) \/ SettleGroup(g)
       \/ \E s \in BatchStatus : ControlBatch(s)
    /\ UNCHANGED scenario

Spec == Init /\ [][Next]_vars

\* A live worker keeps executing, a lease that nobody renews runs out, run_once
\* gets to every claimable row and then reconciles, and the pipeline gets to
\* every group.
Fairness ==
    /\ \A w \in Workers : WF_vars(WorkerStep(w) /\ UNCHANGED scenario)
    /\ \A i \in Roots :
          /\ WF_vars(LeaseExpires(i) /\ UNCHANGED scenario)
          /\ SF_vars(\E w \in Workers : i \in scenario.roots /\ Claim(w, i)
                                        /\ UNCHANGED scenario)
    /\ WF_vars(Reconcile /\ UNCHANGED scenario)
    /\ \A g \in Groups : WF_vars((AttemptGroup(g) \/ SettleGroup(g)) /\ UNCHANGED scenario)

FairSpec == Spec /\ Fairness
-----------------------------------------------------------------------------
(* Properties                                                              *)

\* Bytes that workers hold in reserve.
BytesHeld == SumFunctionOnSet(held, Workers)

\* What an archive reserves and what it comes to.
Room == [a \in Archives |-> Declared[a] + Actual[a]]

\* Nothing in the scenario outlasts a lease, and no settlement can break the
\* CHECK: archives declare all they hold, or there is room for both figures.
SettlementsFit ==
    LET archives == Archives \cap scenario.roots IN
    /\ scenario.stalls = {}
    /\ \/ \A a \in archives : Actual[a] <= Declared[a]
       \/ /\ scenario.envelope # None
          /\ SumFunctionOnSet(Room, archives) <= scenario.envelope

\* extracted_bytes_consumed covers every settled extraction and every
\* reservation still held, whatever fails, and it holds nothing else as long as
\* no worker dies: admission, settlement and give-back balance over any number
\* of failed attempts.
BytesAccounted ==
    /\ extractedBytes >= settled + BytesHeld
    /\ SettlementsFit /\ crashes = 0 => extractedBytes = settled + BytesHeld

\* The leaves that the batch may come to.
Leaves ==
    (Files \cap scenario.roots) \cup UNION {Range(Walk[a]) : a \in Archives \cap scenario.roots}

\* Nobody else writes the file of row i: no other leaf may have the same bytes and
\* suffix, and no worker outlasts its lease.
SoleWriter(i) ==
    /\ scenario.stalls = {}
    /\ \A j \in Leaves \ {i} : Suffix[j] = Suffix[i] => identity[i] \notin ContentOf[j]

\* A write of file f is under way, or one that was is known to have been broken off.
BeingWritten(f) == \E w \in Workers : pc[w] = "writing" /\ Target(w) = f
BrokenOff == crashes > 0 \/ "write" \in scenario.faults

\* An eligible row that has its identity has a file in the workspace.  The file is
\* whole, although it was written in place and perhaps again after failures; only
\* others with the same bytes can still cut it, while they write it or for good
\* when they do not come to the end.
AssignedHasContent ==
    \A i \in Items : identity[i] # None /\ Eligibility[i] = "ELIGIBLE" =>
        LET f == <<identity[i], Suffix[i]>> IN
        /\ f \in content
        /\ cut[f] # None => ~SoleWriter(i) /\ (BeingWritten(f) \/ BrokenOff)

\* What is recorded is complete, also when rows with the same bytes race for
\* their group, workers die and walks stop in the middle: an identity has its
\* bytes (but see AssignedHasContent), a file that succeeded has its identity, and
\* an archive that succeeded has every member's row and every leaf's identity.
ProcessedIsDone ==
    \A i \in Roots : Processed(i) =>
        IF i \in Files THEN identity[i] # None
        ELSE \A n \in DOMAIN Walk[i] :
                LET m == Walk[i][n] IN
                m \in rows /\ (Kind[m] = "leaf" => identity[m] # None)

SuccessIsComplete == AssignedHasContent /\ ProcessedIsDone

\* The first identity of a row stands.
IdentitiesKept == \A i \in Roots \cup Members : identity[i] # None => identity'[i] = identity[i]

\* A claim is given up only by the worker that holds it.  For archives the fence
\* is a local, and it is enough that no worker outlasts its lease before it has
\* read its generation; identity resolution reads its generation again after a
\* rollback, so there no worker may outlast its lease at all.
ClaimsKept ==
    \A i \in Roots :
        /\ scenario.stalls = {} \/ (i \in Archives /\ "claimed" \notin scenario.stalls)
        /\ claimedBy[i] # None
        => \/ claimedBy'[i] # None
           \/ inst[claimedBy[i]] = i /\ pc[claimedBy[i]] = "release"

\* Whoever overtakes a worker and finds other bytes in the file: the identity
\* that a row has and the claim that a worker holds are taken by nobody
\* (assign_content_identity writes once, the release is fenced).
NothingTaken == [][IdentitiesKept /\ ClaimsKept]_vars

\* All work on a selected row is over: an archive was processed or cannot be,
\* the content of anything else has run through the pipeline.
Over(i) ==
    IF i \in Archives THEN Processed(i) \/ <<i, "DURABLE">> \in attempts
    ELSE identity[i] # None /\ groupState[identity[i]] \in TerminalStates

\* A batch completes only when all work on its selected rows is over, although
\* the counts it decides on are taken at different times.
CompletionSound ==
    [][status # "COMPLETED" /\ status' = "COMPLETED"
       => \A i \in scenario.roots : Over(i)]_vars

\* Nothing in the scenario fails for good: no faults, no worker outlasts its
\* lease, every reservation can be had, and a worker that dies leaves a claim
\* that another attempt may follow.
NothingFails ==
    /\ scenario.faults = {} /\ scenario.stalls = {}
    /\ scenario.envelope = None
    /\ scenario.claims > scenario.deaths
    /\ scenario.deaths > 0 => \A f \in Files \cap scenario.roots : Eligibility[f] = "ELIGIBLE"

\* A running batch is completed in the end, also when a worker dies in any step
\* of identity resolution or of archive processing.
BatchCompletes == NothingFails => <>(status = "COMPLETED")
=============================================================================
