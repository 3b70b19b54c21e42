------------------------ MODULE BatchOrchestratorProofs ------------------------
(***************************************************************************)
(* Theorems about BatchOrchestrator, for every set of batches, drives,     *)
(* files, contents and processes: what a batch takes when it is created,   *)
(* under any race of calls for a drive, and what one pass achieves that    *)
(* meets no obstacle.                                                      *)
(***************************************************************************)
EXTENDS BatchOrchestrator, SumTheorems

\* Fewer candidates to choose from, fewer that are deferred.
LEMMA DeferredShrinks ==
    ASSUME NEW S, NEW T \in SUBSET S
    PROVE  Deferred(T) \subseteq Deferred(S)
BY DEF Deferred

\* What fits still fits when some of it is taken away.
LEMMA FitsShrinks ==
    ASSUME NEW S \in SUBSET Candidates, NEW T \in SUBSET S, NEW b \in Batches, Fits(S, Ask[b])
    PROVE  Fits(T, Ask[b])
<1>1. IsFiniteSet(S) /\ IsFiniteSet(T)
  BY CandidatesAssumption, FS_Subset
<1>2. Cardinality(T) \in Nat /\ Cardinality(S) \in Nat /\ Cardinality(T) <= Cardinality(S)
  BY <1>1, FS_Subset, FS_CardinalityType
<1>3. \A c \in S : SizeMB[c] \in Nat
  BY CandidatesAssumption
<1>4. TotalMB(T) \in Nat /\ TotalMB(S) \in Nat /\ TotalMB(T) <= TotalMB(S)
  BY <1>1, <1>3, SumPart DEF TotalMB
<1>5. Ask[b].maxInstances \in Nat /\ Ask[b].maxMB \in Nat
  BY AskAssumption
<1>. QED
  BY <1>2, <1>4, <1>5 DEF Fits

\* The candidates a policy lets through, in whose order the selection goes.
Ordered(eligible, ask) == {c \in eligible \ Deferred(eligible) : Matches(ask.policy, c)}

\* A selection is an initial part of what the policy lets through.
LEMMA SelectionIsPrefix ==
    ASSUME NEW E \in SUBSET Candidates, NEW b \in Batches,
           NEW d \in Selection(E, Ask[b]), NEW c \in Ordered(E, Ask[b]), c < d
    PROVE  c \in Selection(E, Ask[b])
<1>. DEFINE upto(x) == {y \in Ordered(E, Ask[b]) : y <= x}
<1>1. Ordered(E, Ask[b]) \subseteq Candidates /\ Candidates \subseteq Nat
  BY CandidatesAssumption DEF Ordered
<1>2. d \in Ordered(E, Ask[b]) /\ Fits(upto(d), Ask[b])
  BY DEF Selection, Ordered
<1>3. upto(c) \subseteq upto(d)
  <2>1. c \in Nat /\ d \in Nat /\ \A y \in Ordered(E, Ask[b]) : y \in Nat
    BY <1>1, <1>2
  <2>2. \A y \in Ordered(E, Ask[b]) : y <= c => y <= d
    BY <2>1
  <2>. QED
    BY <2>2
<1>4. upto(d) \in SUBSET Candidates
  BY <1>1
<1>5. Fits(upto(c), Ask[b])
  BY <1>2, <1>3, <1>4, FitsShrinks
<1>. QED
  BY <1>5 DEF Selection, Ordered

\* What a batch takes stays within its budgets of files and of bytes.
LEMMA SelectionFits ==
    ASSUME NEW E \in SUBSET Candidates, NEW b \in Batches
    PROVE  Selection(E, Ask[b]) = {} \/ Fits(Selection(E, Ask[b]), Ask[b])
<1>. DEFINE chosen == Selection(E, Ask[b])
<1>. SUFFICES ASSUME chosen # {} PROVE Fits(chosen, Ask[b])
  OBVIOUS
<1>1. chosen \subseteq Ordered(E, Ask[b]) /\ Ordered(E, Ask[b]) \in SUBSET Candidates
  BY DEF Selection, Ordered
<1>2. IsFiniteSet(chosen) /\ chosen \in SUBSET Nat
  BY <1>1, CandidatesAssumption, FS_Subset
<1>3. PICK m \in chosen : \A c \in chosen : c <= m
  BY <1>2, Greatest
<1>. DEFINE upto == {y \in Ordered(E, Ask[b]) : y <= m}
<1>4. Fits(upto, Ask[b])
  BY DEF Selection, Ordered
<1>5. chosen \subseteq upto /\ upto \in SUBSET Candidates
  BY <1>1, <1>3
<1>. QED
  BY <1>4, <1>5, FitsShrinks

-----------------------------------------------------------------------------
(* Creation                                                                *)

\* The types of what create_batch reads and writes.
CreationTypeOK ==
    /\ call \in [Batches -> {"waiting", "selecting", "done"}]
    /\ materialized \in [Batches -> SUBSET Paths]
    /\ rows \in [Batches -> SUBSET Paths]

\* The lock has one holder for a drive.
OneSelecting ==
    \A a, b \in Batches :
        call[a] = "selecting" /\ call[b] = "selecting" /\ Ask[a].drive = Ask[b].drive => a = b

\* What a call has read is still all that there is.
SelectingKnows ==
    \A b \in Batches : call[b] = "selecting" => materialized[b] = MaterializedOn(Ask[b].drive)

\* A batch holds nothing until its call has ended, and then what was selected of
\* what no batch of its drive had.
RowsSelected ==
    \A b \in Batches :
        /\ call[b] # "done" => rows[b] = {}
        /\ rows[b] # {} => rows[b] = Selection(Ask[b].seen \ materialized[b], Ask[b])
        /\ materialized[b] \subseteq MaterializedOn(Ask[b].drive)

CreationInv ==
    CreationTypeOK /\ OneSelecting /\ SelectingKnows /\ RowsSelected /\ NoPathTwice

\* Nothing else writes what create_batch does.
LEMMA CreationSteps ==
    ASSUME [Next]_vars
    PROVE  UNCHANGED creationVars \/ \E b \in Batches : ReadMaterialized(b) \/ CreateBatch(b)
<1>1. ASSUME NEW b \in Batches, Start(b) \/ Pause(b) \/ Resume(b)
      PROVE  UNCHANGED creationVars
  BY <1>1 DEF Start, Pause, Resume, SetStatus
<1>2. ASSUME NEW g \in Groups, ResetGroup(g) PROVE UNCHANGED creationVars
  BY <1>2 DEF ResetGroup
<1>3. ASSUME NEW w \in Workers, Step(w) PROVE UNCHANGED creationVars
  BY <1>3 DEF Step, Begin, Return, ClaimRow, ClaimGroup, EndStage, AdmitArchive,
      ProcessArchive, ResolveFile, PrepareGroup, AdmitGroup, EmbedGroup, Complete
<1>4. ASSUME NEW w \in Workers, Die(w) PROVE UNCHANGED creationVars
  BY <1>4 DEF Die
<1>5. CASE LeaseExpires
  BY <1>5 DEF LeaseExpires
<1>6. CASE UNCHANGED vars
  BY <1>6 DEF vars
<1>. QED
  BY <1>1, <1>2, <1>3, <1>4, <1>5, <1>6 DEF Next, Create

\* No batch is there at first.
LEMMA CreationInit == Init => CreationInv
<1>. SUFFICES ASSUME Init PROVE CreationInv
  OBVIOUS
<1>. USE DEF Init
<1>1. CreationTypeOK
  BY DEF CreationTypeOK
<1>2. OneSelecting /\ SelectingKnows
  BY DEF OneSelecting, SelectingKnows
<1>3. RowsSelected
  BY DEF RowsSelected
<1>4. NoPathTwice
  BY DEF NoPathTwice
<1>. QED
  BY <1>1, <1>2, <1>3, <1>4 DEF CreationInv

\* Reading the paths takes the lock and fixes what may be selected.
LEMMA ReadKept ==
    ASSUME CreationInv, NEW b \in Batches, ReadMaterialized(b)
    PROVE  CreationInv'
<1>0. CreationTypeOK /\ OneSelecting /\ SelectingKnows /\ RowsSelected /\ NoPathTwice
  BY DEF CreationInv
<1>1. /\ call[b] = "waiting" /\ LockFree(b)
      /\ materialized' = [materialized EXCEPT ![b] = MaterializedOn(Ask[b].drive)]
      /\ call' = [call EXCEPT ![b] = "selecting"]
      /\ rows' = rows
  BY DEF ReadMaterialized
<1>2. \A d : MaterializedOn(d)' = MaterializedOn(d) /\ MaterializedOn(d) \in SUBSET Paths
  BY <1>0, <1>1 DEF MaterializedOn, CreationTypeOK
<1>3. CreationTypeOK'
  BY <1>0, <1>1, <1>2 DEF CreationTypeOK
<1>4. \A a \in Batches : /\ call'[a] = IF a = b THEN "selecting" ELSE call[a]
                         /\ materialized'[a] = IF a = b THEN MaterializedOn(Ask[b].drive)
                                               ELSE materialized[a]
  BY <1>0, <1>1 DEF CreationTypeOK
<1>5. OneSelecting'
  BY <1>0, <1>1, <1>4 DEF OneSelecting, LockFree
<1>6. SelectingKnows'
  BY <1>0, <1>2, <1>4 DEF SelectingKnows
<1>7. RowsSelected'
  BY <1>0, <1>1, <1>2, <1>4 DEF RowsSelected
<1>8. NoPathTwice'
  BY <1>0, <1>1 DEF NoPathTwice
<1>. QED
  BY <1>3, <1>5, <1>6, <1>7, <1>8 DEF CreationInv

\* The holder of the lock writes rows that no batch of its drive has.
LEMMA CreateKept ==
    ASSUME CreationInv, NEW b \in Batches, CreateBatch(b)
    PROVE  CreationInv'
<1>. DEFINE chosen == Selection(Ask[b].seen \ materialized[b], Ask[b])
<1>0. CreationTypeOK /\ OneSelecting /\ SelectingKnows /\ RowsSelected /\ NoPathTwice
  BY DEF CreationInv
<1>1. /\ call[b] = "selecting" /\ materialized' = materialized
      /\ call' = [call EXCEPT ![b] = "done"]
      /\ IF chosen = {} THEN rows' = rows ELSE rows' = [rows EXCEPT ![b] = chosen]
  BY DEF CreateBatch
<1>2. chosen \subseteq Ask[b].seen \ materialized[b] /\ chosen \in SUBSET Paths
  BY AskAssumption DEF Selection, Paths
<1>3. /\ rows[b] = {} /\ materialized[b] = MaterializedOn(Ask[b].drive)
  BY <1>0, <1>1 DEF RowsSelected, SelectingKnows
<1>. HIDE DEF chosen
<1>4. \A a \in Batches : /\ call'[a] = IF a = b THEN "done" ELSE call[a]
                         /\ rows'[a] = IF a = b THEN chosen ELSE rows[a]
  BY <1>0, <1>1, <1>3 DEF CreationTypeOK
<1>5. CreationTypeOK'
  BY <1>0, <1>1, <1>2 DEF CreationTypeOK
<1>6. OneSelecting'
  BY <1>0, <1>4 DEF OneSelecting
<1>7. \A d : MaterializedOn(d) \subseteq MaterializedOn(d)'
  BY <1>3, <1>4 DEF MaterializedOn
<1>8. \A a \in Batches : Ask[a].drive # Ask[b].drive =>
         MaterializedOn(Ask[a].drive)' = MaterializedOn(Ask[a].drive)
  BY <1>4 DEF MaterializedOn
<1>9. SelectingKnows'
  <2>. SUFFICES ASSUME NEW a \in Batches, call'[a] = "selecting"
                PROVE  materialized'[a] = MaterializedOn(Ask[a].drive)'
    BY DEF SelectingKnows
  <2>1. a # b /\ call[a] = "selecting" /\ materialized'[a] = MaterializedOn(Ask[a].drive)
    BY <1>0, <1>1, <1>4 DEF SelectingKnows
  <2>2. Ask[a].drive # Ask[b].drive
    BY <1>0, <1>1, <2>1 DEF OneSelecting
  <2>. QED
    BY <1>8, <2>1, <2>2
<1>10. RowsSelected'
  <2>1. ASSUME NEW a \in Batches
        PROVE  /\ call'[a] # "done" => rows'[a] = {}
               /\ rows'[a] # {} => rows'[a] = Selection(Ask[a].seen \ materialized[a], Ask[a])
    BY <1>0, <1>4 DEF RowsSelected, chosen
  <2>2. ASSUME NEW a \in Batches PROVE materialized'[a] \subseteq MaterializedOn(Ask[a].drive)'
    BY <1>0, <1>1, <1>7 DEF RowsSelected
  <2>. QED
    BY <1>1, <2>1, <2>2 DEF RowsSelected
<1>11. NoPathTwice'
  <2>1. ASSUME NEW a \in Batches, a # b, Ask[a].drive = Ask[b].drive
        PROVE  rows[a] \cap chosen = {}
    BY <1>2, <1>3, <2>1 DEF MaterializedOn
  <2>. QED
    BY <1>0, <1>4, <2>1 DEF NoPathTwice
<1>. QED
  BY <1>5, <1>6, <1>9, <1>10, <1>11 DEF CreationInv

\* Every step keeps what batches were created with.
LEMMA CreationStep == CreationInv /\ [Next]_vars => CreationInv'
<1>. SUFFICES ASSUME CreationInv, UNCHANGED creationVars PROVE CreationInv'
  BY CreationSteps, ReadKept, CreateKept
<1>1. call' = call /\ materialized' = materialized /\ rows' = rows
  BY DEF creationVars
<1>2. \A d : MaterializedOn(d)' = MaterializedOn(d)
  BY <1>1 DEF MaterializedOn
<1>3. CreationTypeOK' /\ OneSelecting' /\ NoPathTwice'
  BY <1>1 DEF CreationInv, CreationTypeOK, OneSelecting, NoPathTwice
<1>4. SelectingKnows' /\ RowsSelected'
  BY <1>1, <1>2 DEF CreationInv, SelectingKnows, RowsSelected
<1>. QED
  BY <1>3, <1>4 DEF CreationInv

\* The invariant holds of every behaviour.
THEOREM Invariance == Spec => []CreationInv
BY CreationInit, CreationStep, PTL DEF Spec

\* However many calls of create_batch race for a drive, no file gets into two of its
\* batches: the lock is held from the read of the taken paths to the commit.
THEOREM NoFileTwice == Spec => []NoPathTwice
<1>1. CreationInv => NoPathTwice
  BY DEF CreationInv
<1>. QED
  BY <1>1, Invariance, PTL

\* What a batch took is within the budgets of its call, in files and in bytes.
WithinBudgets == \A b \in Batches : rows[b] # {} => Fits(rows[b], Ask[b])

\* No batch is ever made that exceeds max_source_instances or max_source_bytes of create_batch.
THEOREM BudgetsHold == Spec => []WithinBudgets
<1>1. CreationInv => WithinBudgets
  <2>. SUFFICES ASSUME CreationInv, NEW b \in Batches, rows[b] # {}
                PROVE  Fits(rows[b], Ask[b])
    BY DEF WithinBudgets
  <2>1. rows[b] = Selection(Ask[b].seen \ materialized[b], Ask[b])
    BY DEF CreationInv, RowsSelected
  <2>2. Ask[b].seen \ materialized[b] \in SUBSET Candidates
    BY AskAssumption
  <2>. QED
    BY <2>1, <2>2, SelectionFits
<1>. QED
  BY <1>1, Invariance, PTL

\* A batch never takes a file and leaves an earlier one behind that it could have
\* taken: select stops where it would have to skip.
THEOREM OrderKept == Spec => []NothingPassedOver
<1>1. CreationInv => NothingPassedOver
  <2>. SUFFICES ASSUME CreationInv, NEW b \in Batches, NEW c \in Ask[b].seen,
                       c \notin Deferred(Ask[b].seen), Matches(Ask[b].policy, c),
                       NEW d \in rows[b], c < d
                PROVE  c \in MaterializedOn(Ask[b].drive)
    BY DEF NothingPassedOver
  <2>. DEFINE E == Ask[b].seen \ materialized[b]
  <2>1. /\ rows[b] = Selection(E, Ask[b])
        /\ materialized[b] \subseteq MaterializedOn(Ask[b].drive)
    BY DEF CreationInv, RowsSelected
  <2>2. E \in SUBSET Candidates /\ E \in SUBSET Ask[b].seen
    BY AskAssumption
  <2>3. CASE c \in materialized[b]
    BY <2>1, <2>3
  <2>4. CASE c \notin materialized[b]
    <3>1. c \in Ordered(E, Ask[b])
      BY <2>2, <2>4, DeferredShrinks DEF Ordered
    <3>. HIDE DEF E
    <3>2. c \in rows[b]
      BY <2>1, <2>2, <3>1, SelectionIsPrefix
    <3>. QED
      BY <3>2 DEF MaterializedOn
  <2>. QED
    BY <2>3, <2>4
<1>. QED
  BY <1>1, Invariance, PTL
-----------------------------------------------------------------------------
(* A pass                                                                  *)

Working(w) == pc[w] \in {"admit", "work"}

\* The types of what a pass reads and writes.
PassTypeOK ==
    /\ status \in [Batches -> BatchStatus \cup {None}]
    /\ rowClaim \in [Rows -> Workers \cup {None}]
    /\ groupClaim \in [Groups -> Workers \cup {None}]
    /\ attempts \in [Rows -> SUBSET Outcomes]
    /\ identified \subseteq Rows
    /\ groupState \in [Groups -> GroupStates]
    /\ holds \in [Batches -> SUBSET Groups]
    /\ pc \in [Workers -> {"idle", "claim", "admit", "work", "complete", "rest", "done"}]
    /\ stage \in [Workers -> 1..5]
    /\ item = [w \in Workers |-> item[w]]
    /\ had \in [Workers -> SUBSET Paths]
    /\ smooth \in [Workers -> BOOLEAN]
    /\ scenario \in Scenarios

\* A file whose content is identified has an attempt that says so, and a batch that
\* holds it.
IdentifiedTrue ==
    /\ \A r \in identified : "SUCCEEDED" \in attempts[r] /\ ContentOf[r[2]] \in holds[r[1]]
    /\ \A b \in Batches, c \in Paths :
          "SUCCEEDED" \in attempts[<<b, c>>] /\ ~ArchiveRow(c) => <<b, c>> \in identified

\* A content that a batch holds has its group.
HeldKnown == \A b \in Batches : \A g \in holds[b] : groupState[g] # "ABSENT"

\* Only a batch that was made has a status.
StatusLate == \A b \in Batches : status[b] # None => call[b] = "done"

\* What a worker works on is a path of the kind that its stage claims.
ItemFits ==
    \A w \in Workers :
        /\ pc[w] # "idle" => Job(w) \in Batches
        /\ Working(w) /\ stage[w] <= 2 =>
              item[w] \in Paths /\ (ArchiveRow(item[w]) <=> stage[w] = 1)

\* Of a pass that met no obstacle so far: it is alone, with its claim;
OnlyMine(w) ==
    /\ Alone(w)
    /\ \A r \in Rows : rowClaim[r] # None => Working(w) /\ stage[w] <= 2 /\ r = MyRow(w)
    /\ \A g \in Groups : groupClaim[g] # None => Working(w) /\ stage[w] > 2 /\ g = item[w]

\* the archives it has had are settled,
ArchivesBehind(w) ==
    \A c \in rows[Job(w)] :
        (/\ ArchiveRow(c) /\ (stage[w] > 1 \/ c \in had[w])
         /\ ~(Working(w) /\ stage[w] = 1 /\ c = item[w]))
        => attempts[<<Job(w), c>>] \cap {"SUCCEEDED", "DURABLE"} # {}

\* the files it has had are identified,
FilesBehind(w) ==
    \A c \in rows[Job(w)] :
        (/\ ~ArchiveRow(c) /\ (stage[w] > 2 \/ (stage[w] = 2 /\ c \in had[w]))
         /\ ~(Working(w) /\ stage[w] = 2 /\ c = item[w]))
        => <<Job(w), c>> \in identified

\* and no group is left in a state from which a stage that is over claims.
GroupsBehind(w) ==
    \A g \in Groups :
        /\ stage[w] > 3 => groupState[g] # "EXTRACTED"
        /\ stage[w] > 4 => groupState[g] # "NORMALIZED"
        /\ pc[w] \in {"complete", "rest"} => groupState[g] \notin {"CHUNKED", "EMBEDDED"}

\* The batch is running until the pass completes it.
BatchRuns(w) ==
    /\ pc[w] \in {"complete", "rest"} => stage[w] = 5
    /\ status[Job(w)] = IF pc[w] = "rest" THEN "COMPLETED" ELSE "RUNNING"

SmoothPass(w) ==
    /\ pc[w] # "idle"
    /\ OnlyMine(w) /\ ArchivesBehind(w) /\ FilesBehind(w) /\ GroupsBehind(w) /\ BatchRuns(w)

SmoothPasses == \A w \in Workers : smooth[w] /\ pc[w] # "done" => SmoothPass(w)

PassInv ==
    PassTypeOK /\ IdentifiedTrue /\ HeldKnown /\ StatusLate /\ ItemFits /\ SmoothPasses

\* No process is in a pass at first.
LEMMA PassInit == Init => PassInv
<1>. SUFFICES ASSUME Init PROVE PassInv
  OBVIOUS
<1>. USE DEF Init
<1>1. PassTypeOK
  BY ContentAssumption DEF PassTypeOK, GroupStates
<1>2. IdentifiedTrue /\ HeldKnown /\ StatusLate
  BY DEF IdentifiedTrue, HeldKnown, StatusLate, Rows
<1>3. ItemFits /\ SmoothPasses
  BY DEF ItemFits, SmoothPasses, Working
<1>. QED
  BY <1>1, <1>2, <1>3 DEF PassInv

\* The next row is one of those that the claim selects.
LEMMA NextRowChosen ==
    ASSUME NEW w \in Workers, NextRows(w) # {}
    PROVE  Min(NextRows(w)) \in NextRows(w)
<1>1. NextRows(w) \in SUBSET Nat
  BY CandidatesAssumption DEF NextRows, RowsFor, Paths
<1>2. \E m \in NextRows(w) : \A n \in NextRows(w) : m <= n
  BY <1>1, Least
<1>. QED
  BY <1>2 DEF Min

\* What FindGroups does to the states of groups.
LEMMA FoundStates ==
    ASSUME PassTypeOK, NEW contents \in Seq(Groups), FindGroups(contents)
    PROVE  /\ groupState' \in [Groups -> GroupStates]
           /\ \A g \in Groups : groupState[g] # "ABSENT" => groupState'[g] = groupState[g]
           /\ \A i \in 1..Len(contents) : groupState'[contents[i]] # "ABSENT"
<1>1. /\ groupState \in [Groups -> GroupStates]
      /\ groupState' = [g \in Groups |-> IF groupState[g] = "ABSENT" /\ g \in ToSet(contents)
                                         THEN InitialState[g] ELSE groupState[g]]
  BY DEF PassTypeOK, FindGroups
<1>2. \A g \in Groups : InitialState[g] \in GroupStates /\ InitialState[g] # "ABSENT"
  BY ContentAssumption DEF StartStates, GroupStates
<1>3. \A i \in 1..Len(contents) : contents[i] \in Groups /\ contents[i] \in ToSet(contents)
  BY DEF ToSet
<1>. QED
  BY <1>1, <1>2, <1>3

\* The next stage is a stage.
LEMMA NextStageTypes ==
    ASSUME PassTypeOK, NEW w \in Workers, NextStage(w)
    PROVE  /\ stage' \in [Workers -> 1..5]
           /\ pc' \in [Workers -> {"idle", "claim", "admit", "work", "complete", "rest", "done"}]
           /\ had' \in [Workers -> SUBSET Paths]
BY DEF PassTypeOK, NextStage, Stages

\* The types of the pass, step by step.
LEMMA PassTypes == PassTypeOK /\ ItemFits /\ [Next]_vars => PassTypeOK'
<1>. SUFFICES ASSUME PassTypeOK, ItemFits, [Next]_vars PROVE PassTypeOK'
  OBVIOUS
<1>. USE DEF PassTypeOK
<1>0. scenario' = scenario
  BY DEF Next, vars
<1>1. ASSUME NEW b \in Batches, Create(b) PROVE PassTypeOK'
  BY <1>0, <1>1 DEF Create, ReadMaterialized, CreateBatch, rowVars, groupVars, processVars,
      BatchStatus
<1>2. ASSUME NEW b \in Batches, Start(b) \/ Pause(b) \/ Resume(b) PROVE PassTypeOK'
  BY <1>0, <1>2 DEF Start, Pause, Resume, SetStatus, rowVars, groupVars, BatchStatus
<1>3. ASSUME NEW g \in Groups, ResetGroup(g) PROVE PassTypeOK'
  BY <1>0, <1>3 DEF ResetGroup, rowVars, GroupStates
<1>4. ASSUME NEW w \in Workers, Step(w) PROVE PassTypeOK'
  <2>. USE <1>0
  <2>0. Job(w) \in Batches /\ stage[w] \in 1..5
    BY <1>4, ScopeAssumption DEF Step, Job
  <2>1. CASE Begin(w)
    <3>1. smooth' \in [Workers -> BOOLEAN]
      BY <2>1 DEF Begin
    <3>. QED
      BY <2>1, <3>1 DEF Begin, rowVars, groupVars
  <2>12. CASE Return(w)
    BY <2>12 DEF Return, rowVars, groupVars
  <2>2. CASE ClaimRow(w)
    <3>1. Min(NextRows(w)) \in Paths
      BY <2>2, NextRowChosen DEF ClaimRow, NextRows, RowsFor
    <3>. QED
      BY <2>0, <2>2, <3>1 DEF ClaimRow, groupVars, Rows
  <2>3. CASE ClaimGroup(w)
    BY <2>3 DEF ClaimGroup, rowVars, groupVars
  <2>4. CASE EndStage(w)
    BY <2>0, <2>4 DEF EndStage, NextStage, rowVars, groupVars, Stages
  <2>5. CASE AdmitArchive(w)
    <3>1. CASE pc' = [pc EXCEPT ![w] = "work"] /\ UNCHANGED <<rowClaim, stage, item, had, smooth>>
      BY <2>5, <3>1 DEF AdmitArchive, groupVars
    <3>2. CASE ReleaseRow(w) /\ Denied(w)
      <4>1. smooth' \in [Workers -> BOOLEAN]
        BY <3>2 DEF Denied
      <4>. QED
        BY <2>5, <3>2, <4>1, NextStageTypes DEF AdmitArchive, Denied, ReleaseRow, groupVars
    <3>. QED
      BY <2>5, <3>1, <3>2 DEF AdmitArchive
  <2>6. CASE ProcessArchive(w)
    <3>0. item[w] \in Paths /\ Walk[item[w]] \in Seq(Groups)
      BY <2>6, ContentAssumption DEF ItemFits, Working, ProcessArchive, Paths
    <3>1. PICK n \in 0..Len(Walk[item[w]]) :
             /\ FindGroups(SubSeq(Walk[item[w]], 1, n))
             /\ holds' = [holds EXCEPT ![Job(w)] = @ \cup {Walk[item[w]][i] : i \in 1..n}]
             /\ \E o \in Outcomes : Attempted(w, o)
             /\ smooth' \in {smooth, [smooth EXCEPT ![w] = FALSE]}
      BY <2>6 DEF ProcessArchive, FailRetryably, Outcomes
    <3>2. SubSeq(Walk[item[w]], 1, n) \in Seq(Groups)
      BY <3>0
    <3>3. {Walk[item[w]][i] : i \in 1..n} \subseteq Groups
      BY <3>0
    <3>4. groupState' \in [Groups -> GroupStates]
      BY <3>1, <3>2, FoundStates
    <3>5. holds' \in [Batches -> SUBSET Groups]
      BY <3>1, <3>3
    <3>6. attempts' \in [Rows -> SUBSET Outcomes]
      <4>1. PICK o \in Outcomes : Attempted(w, o)
        BY <3>1
      <4>. QED
        BY <4>1 DEF Attempted
    <3>7. smooth' \in [Workers -> BOOLEAN]
      BY <3>1
    <3>. QED
      BY <2>6, <3>4, <3>5, <3>6, <3>7 DEF ProcessArchive, ReleaseRow, Over
  <2>7. CASE ResolveFile(w)
    <3>0. item[w] \in Paths /\ ContentOf[item[w]] \in Groups /\ MyRow(w) \in Rows
      BY <2>0, <2>7, ContentAssumption DEF ItemFits, Working, ResolveFile, Paths, MyRow, Rows
    <3>1. CASE FailRetryably(w) /\ UNCHANGED <<queue, groupState, holds, identified>>
      BY <2>7, <3>1 DEF ResolveFile, FailRetryably, Attempted, Outcomes, ReleaseRow, Over
    <3>2. CASE /\ FindGroups(<<ContentOf[item[w]]>>)
               /\ holds' = [holds EXCEPT ![Job(w)] = @ \cup {ContentOf[item[w]]}]
               /\ identified' = identified \cup {MyRow(w)}
               /\ Attempted(w, "SUCCEEDED")
               /\ UNCHANGED smooth
      <4>1. groupState' \in [Groups -> GroupStates]
        <5>1. <<ContentOf[item[w]]>> \in Seq(Groups)
          BY <3>0
        <5>. QED
          BY <3>2, <5>1, FoundStates
      <4>. QED
        BY <2>7, <3>0, <3>2, <4>1, ZenonT(60)
           DEF ResolveFile, Attempted, Outcomes, ReleaseRow, Over
    <3>. QED
      BY <2>7, <3>1, <3>2 DEF ResolveFile
  <2>8. CASE PrepareGroup(w)
    BY <2>0, <2>8 DEF PrepareGroup, Leave, Over, rowVars, GroupStates, TerminalStates, ClaimedFrom
  <2>9. CASE AdmitGroup(w)
    <3>1. CASE /\ Leave(w, IF item[w] \in documents THEN "INGESTED" ELSE "FAILED")
               /\ UNCHANGED <<stage, had, smooth>>
      BY <2>9, <3>1 DEF AdmitGroup, Leave, Over, rowVars, GroupStates, TerminalStates
    <3>2. CASE /\ pc' = [pc EXCEPT ![w] = "work"]
               /\ UNCHANGED <<groupState, groupClaim, stage, item, had, smooth>>
      BY <2>9, <3>2 DEF AdmitGroup, rowVars
    <3>3. CASE /\ groupClaim' = [groupClaim EXCEPT ![item[w]] = None]
               /\ Denied(w) /\ UNCHANGED groupState
      <4>1. smooth' \in [Workers -> BOOLEAN]
        BY <3>3 DEF Denied
      <4>. QED
        BY <2>9, <3>3, <4>1, NextStageTypes DEF AdmitGroup, Denied, rowVars
    <3>. QED
      BY <2>9, <3>1, <3>2, <3>3 DEF AdmitGroup
  <2>10. CASE EmbedGroup(w)
    BY <2>0, <2>10 DEF EmbedGroup, Leave, Over, rowVars, GroupStates, TerminalStates
  <2>11. CASE Complete(w)
    BY <2>0, <2>11 DEF Complete, rowVars, groupVars, BatchStatus
  <2>. QED
    BY <1>4, <2>1, <2>12, <2>2, <2>3, <2>4, <2>5, <2>6, <2>7, <2>8, <2>9, <2>10, <2>11 DEF Step
<1>5. ASSUME NEW w \in Workers, Die(w) PROVE PassTypeOK'
  BY <1>0, <1>5 DEF Die, rowVars, groupVars
<1>6. CASE LeaseExpires
  BY <1>0, <1>6 DEF LeaseExpires, groupVars, processVars
<1>7. CASE UNCHANGED vars
  BY <1>7 DEF vars, rowVars, groupVars, processVars
<1>. QED
  BY <1>1, <1>2, <1>3, <1>4, <1>5, <1>6, <1>7 DEF Next

\* What files, groups, batches and workers know of each other, in any pass.
FactsInv == IdentifiedTrue /\ HeldKnown /\ StatusLate /\ ItemFits

\* Every step, of any pass, keeps what they know of each other.
LEMMA FactsKept ==
    CreationTypeOK /\ PassTypeOK /\ PassTypeOK' /\ FactsInv /\ [Next]_vars => FactsInv'
<1>. SUFFICES ASSUME CreationTypeOK, PassTypeOK, PassTypeOK', FactsInv, [Next]_vars
              PROVE  FactsInv'
  OBVIOUS
<1>. USE DEF FactsInv, IdentifiedTrue, HeldKnown, StatusLate, ItemFits, Working, Job
<1>0. scenario' = scenario /\ None \notin BatchStatus
  BY ContentAssumption DEF Next, vars
<1>1. ASSUME NEW b \in Batches, Create(b) PROVE FactsInv'
  <2>1. CASE ReadMaterialized(b)
    BY <1>0, <2>1 DEF ReadMaterialized, CreationTypeOK, rowVars, groupVars, processVars
  <2>2. CASE CreateBatch(b)
    BY <1>0, <2>2 DEF CreateBatch, CreationTypeOK, PassTypeOK, rowVars, groupVars, processVars
  <2>. QED
    BY <1>1, <2>1, <2>2 DEF Create
<1>2. ASSUME NEW b \in Batches, Start(b) \/ Pause(b) \/ Resume(b) PROVE FactsInv'
  BY <1>0, <1>2 DEF Start, Pause, Resume, SetStatus, rowVars, groupVars, creationVars, PassTypeOK,
      BatchStatus
<1>3. ASSUME NEW g \in Groups, ResetGroup(g) PROVE FactsInv'
  BY <1>0, <1>3 DEF ResetGroup, rowVars, creationVars, PassTypeOK
<1>4. ASSUME NEW w \in Workers, Step(w) PROVE FactsInv'
  <2>. USE <1>0
  <2>0. Job(w) \in Batches /\ stage[w] \in 1..5
    BY <1>4, ScopeAssumption DEF Step, PassTypeOK
  <2>1. CASE Begin(w) \/ Return(w)
    BY <2>0, <2>1 DEF Begin, Return, rowVars, groupVars, creationVars, PassTypeOK
  <2>2. CASE ClaimRow(w)
    <3>1. Min(NextRows(w)) \in Paths /\ (ArchiveRow(Min(NextRows(w))) <=> stage[w] = 1)
      BY <2>2, NextRowChosen DEF ClaimRow, NextRows, RowsFor
    <3>. QED
      BY <2>0, <2>2, <3>1 DEF ClaimRow, groupVars, creationVars, PassTypeOK
  <2>3. CASE ClaimGroup(w)
    <3>1. ~(stage[w] <= 2)
      <4>1. PICK g \in Groups : stage[w] >= 3
        BY <2>3 DEF ClaimGroup, NextGroups
      <4>. QED
        BY <2>0, <4>1
    <3>2. /\ stage' = stage
          /\ \A v \in Workers \ {w} : pc'[v] = pc[v] /\ item'[v] = item[v]
      BY <2>3 DEF ClaimGroup, PassTypeOK
    <3>3. ItemFits'
      BY <2>0, <3>1, <3>2
    <3>4. UNCHANGED <<creationVars, status, rowVars, groupVars>>
      BY <2>3 DEF ClaimGroup
    <3>. QED
      BY <3>3, <3>4 DEF rowVars, groupVars, creationVars
  <2>4. CASE EndStage(w)
    BY <2>0, <2>4, SMTT(30)
       DEF EndStage, NextStage, rowVars, groupVars, creationVars, PassTypeOK
  <2>5. CASE AdmitArchive(w)
    <3>1. /\ pc[w] = "admit" /\ stage[w] = 1
          /\ UNCHANGED <<creationVars, status, attempts, identified, groupVars>>
      BY <2>5 DEF AdmitArchive
    <3>2. CASE /\ pc' = [pc EXCEPT ![w] = "work"]
               /\ UNCHANGED <<stage, item>>
      BY <2>0, <3>1, <3>2 DEF groupVars, creationVars, PassTypeOK
    <3>3. CASE Denied(w)
      BY <2>0, <3>1, <3>3, SMTT(30)
         DEF Denied, NextStage, groupVars, creationVars, PassTypeOK
    <3>. QED
      BY <2>5, <3>2, <3>3 DEF AdmitArchive
  <2>6. CASE ProcessArchive(w)
    <3>0. /\ item[w] \in Paths /\ Walk[item[w]] \in Seq(Groups) /\ ArchiveRow(item[w])
      BY <2>6, ContentAssumption DEF ProcessArchive, Paths
    <3>1. PICK n \in 0..Len(Walk[item[w]]) :
             /\ FindGroups(SubSeq(Walk[item[w]], 1, n))
             /\ holds' = [holds EXCEPT ![Job(w)] = @ \cup {Walk[item[w]][i] : i \in 1..n}]
             /\ \E o \in Outcomes : Attempted(w, o)
      BY <2>6 DEF ProcessArchive, FailRetryably, Outcomes
    <3>2. HeldKnown'
      <4>1. SubSeq(Walk[item[w]], 1, n) \in Seq(Groups)
        BY <3>0
      <4>2. /\ groupState' \in [Groups -> GroupStates]
            /\ \A g \in Groups : groupState[g] # "ABSENT" => groupState'[g] = groupState[g]
            /\ \A i \in 1..Len(SubSeq(Walk[item[w]], 1, n)) :
                  groupState'[SubSeq(Walk[item[w]], 1, n)[i]] # "ABSENT"
        BY <3>1, <4>1, FoundStates
      <4>3. \A i \in 1..n : groupState'[Walk[item[w]][i]] # "ABSENT"
        BY <3>0, <4>2
      <4>. QED
        BY <3>1, <4>2, <4>3 DEF PassTypeOK
    <3>3. IdentifiedTrue'
      <4>1. PICK o \in Outcomes : Attempted(w, o)
        BY <3>1
      <4>2. \A r \in Rows : attempts'[r] = IF r = MyRow(w) THEN attempts[r] \cup {o}
                                           ELSE attempts[r]
        BY <4>1 DEF Attempted, PassTypeOK
      <4>3. identified' = identified
        BY <2>6 DEF ProcessArchive
      <4>4. \A r \in identified : "SUCCEEDED" \in attempts'[r] /\ ContentOf[r[2]] \in holds'[r[1]]
        BY <3>1, <4>2, ZenonT(60) DEF PassTypeOK, Rows
      <4>5. ASSUME NEW b \in Batches, NEW c \in Paths,
                   "SUCCEEDED" \in attempts'[<<b, c>>], ~ArchiveRow(c)
            PROVE  <<b, c>> \in identified
        BY <3>0, <4>2, <4>5 DEF MyRow, Rows
      <4>. QED
        BY <4>3, <4>4, <4>5
    <3>. QED
      BY <2>0, <2>6, <3>2, <3>3 DEF ProcessArchive, Over, creationVars, PassTypeOK
  <2>7. CASE ResolveFile(w)
    <3>0. item[w] \in Paths /\ ContentOf[item[w]] \in Groups /\ MyRow(w) \in Rows
      BY <2>0, <2>7, ContentAssumption DEF ResolveFile, Paths, MyRow, Rows
    <3>1. CASE FailRetryably(w) /\ UNCHANGED <<queue, groupState, holds, identified>>
      <4>1. \A r \in Rows : attempts'[r] = IF r = MyRow(w) THEN attempts[r] \cup {"RETRYABLE"}
                                           ELSE attempts[r]
        BY <3>1 DEF FailRetryably, Attempted, PassTypeOK
      <4>2. UNCHANGED <<creationVars, status, identified, groupState, holds>>
        BY <2>7, <3>1 DEF ResolveFile
      <4>3. ASSUME NEW r \in Rows
            PROVE  "SUCCEEDED" \in attempts'[r] <=> "SUCCEEDED" \in attempts[r]
        <5>1. attempts'[r] = attempts[r] \/ attempts'[r] = attempts[r] \cup {"RETRYABLE"}
          BY <4>1
        <5>2. "RETRYABLE" # "SUCCEEDED"
          OBVIOUS
        <5>. QED
          BY <5>1, <5>2
      <4>4. IdentifiedTrue'
        BY <4>2, <4>3 DEF PassTypeOK, Rows
      <4>5. HeldKnown' /\ StatusLate'
        BY <4>2 DEF creationVars
      <4>6. ItemFits'
        BY <2>0, <2>7, <4>2 DEF ResolveFile, Over, PassTypeOK, creationVars
      <4>. QED
        BY <4>4, <4>5, <4>6
    <3>2. CASE /\ FindGroups(<<ContentOf[item[w]]>>)
               /\ holds' = [holds EXCEPT ![Job(w)] = @ \cup {ContentOf[item[w]]}]
               /\ identified' = identified \cup {MyRow(w)}
               /\ Attempted(w, "SUCCEEDED")
      <4>1. HeldKnown'
        <5>1. <<ContentOf[item[w]]>> \in Seq(Groups) /\ Len(<<ContentOf[item[w]]>>) = 1
          BY <3>0
        <5>2. /\ \A g \in Groups : groupState[g] # "ABSENT" => groupState'[g] = groupState[g]
              /\ groupState'[ContentOf[item[w]]] # "ABSENT"
          <6>1. <<ContentOf[item[w]]>>[1] = ContentOf[item[w]] /\ 1 \in 1..1
            BY <3>0
          <6>. QED
            BY <3>2, <5>1, <6>1, FoundStates
        <5>. QED
          BY <2>0, <3>2, <5>2 DEF PassTypeOK
      <4>2. IdentifiedTrue'
        <5>1. \A r \in Rows : attempts'[r] = IF r = MyRow(w) THEN attempts[r] \cup {"SUCCEEDED"}
                                             ELSE attempts[r]
          BY <3>2 DEF Attempted, PassTypeOK
        <5>2. /\ \A b \in Batches : holds[b] \subseteq holds'[b]
              /\ ContentOf[item[w]] \in holds'[Job(w)]
          BY <2>0, <3>2 DEF PassTypeOK
        <5>3. ASSUME NEW r \in identified'
              PROVE  "SUCCEEDED" \in attempts'[r] /\ ContentOf[r[2]] \in holds'[r[1]]
          <6>1. CASE r = MyRow(w)
            BY <3>0, <5>1, <5>2, <6>1 DEF MyRow
          <6>2. CASE r \in identified
            BY <5>1, <5>2, <6>2 DEF PassTypeOK, Rows
          <6>. QED
            BY <3>2, <6>1, <6>2
        <5>4. ASSUME NEW b \in Batches, NEW c \in Paths,
                     "SUCCEEDED" \in attempts'[<<b, c>>], ~ArchiveRow(c)
              PROVE  <<b, c>> \in identified'
          BY <3>2, <5>1, <5>4 DEF Rows
        <5>. QED
          BY <5>3, <5>4
      <4>. QED
        BY <2>0, <2>7, <4>1, <4>2 DEF ResolveFile, Over, creationVars, PassTypeOK
    <3>. QED
      BY <2>7, <3>1, <3>2 DEF ResolveFile
  <2>8. CASE PrepareGroup(w)
    BY <2>0, <2>8 DEF PrepareGroup, Leave, Over, rowVars, creationVars, ClaimedFrom, PassTypeOK
  <2>9. CASE AdmitGroup(w)
    <3>1. CASE Leave(w, IF item[w] \in documents THEN "INGESTED" ELSE "FAILED") /\ UNCHANGED stage
      BY <2>0, <2>9, <3>1 DEF AdmitGroup, Leave, Over, rowVars, creationVars, PassTypeOK
    <3>2. CASE /\ pc' = [pc EXCEPT ![w] = "work"]
               /\ UNCHANGED <<groupState, stage, item>>
      BY <2>0, <2>9, <3>2 DEF AdmitGroup, rowVars, creationVars, PassTypeOK
    <3>3. CASE Denied(w) /\ UNCHANGED groupState
      BY <2>0, <2>9, <3>3 DEF AdmitGroup, Denied, NextStage, rowVars, creationVars, PassTypeOK
    <3>. QED
      BY <2>9, <3>1, <3>2, <3>3 DEF AdmitGroup
  <2>10. CASE EmbedGroup(w)
    BY <2>0, <2>10 DEF EmbedGroup, Leave, Over, rowVars, creationVars, PassTypeOK
  <2>11. CASE Complete(w)
    BY <2>0, <2>11 DEF Complete, rowVars, groupVars, creationVars, PassTypeOK, BatchStatus
  <2>. QED
    BY <1>4, <2>1, <2>2, <2>3, <2>4, <2>5, <2>6, <2>7, <2>8, <2>9, <2>10, <2>11 DEF Step
<1>5. ASSUME NEW w \in Workers, Die(w) PROVE FactsInv'
  BY <1>0, <1>5 DEF Die, rowVars, groupVars, creationVars, PassTypeOK
<1>6. CASE LeaseExpires
  BY <1>0, <1>6 DEF LeaseExpires, groupVars, processVars, creationVars
<1>7. CASE UNCHANGED vars
  BY <1>0, <1>7 DEF vars, rowVars, groupVars, processVars, creationVars
<1>. QED
  BY <1>1, <1>2, <1>3, <1>4, <1>5, <1>6, <1>7 DEF Next

\* A smooth pass is left as it is by everything around it.
LEMMA AroundSmooth ==
    ASSUME CreationTypeOK, PassTypeOK, FactsInv, scenario' = scenario,
           NEW w \in Workers, SmoothPass(w),
           \/ \E b \in Batches : Create(b) \/ Start(b) \/ Resume(b)
           \/ LeaseExpires
           \/ UNCHANGED vars
    PROVE  SmoothPass(w)'
<1>. USE DEF SmoothPass, OnlyMine, Alone, ArchivesBehind, FilesBehind, GroupsBehind, BatchRuns,
         MyRow, Job, Working
<1>0. /\ Job(w) \in Batches /\ call[Job(w)] = "done"
      /\ status[Job(w)] \in {"RUNNING", "COMPLETED"}
  <2>1. Job(w) \in Batches /\ status[Job(w)] \in {"RUNNING", "COMPLETED"}
    BY DEF FactsInv, ItemFits
  <2>2. status[Job(w)] # None
    BY <2>1, ContentAssumption DEF BatchStatus
  <2>. QED
    BY <2>1, <2>2 DEF FactsInv, StatusLate
<1>1. ASSUME NEW b \in Batches, Create(b) PROVE SmoothPass(w)'
  <2>1. CASE ReadMaterialized(b)
    BY <1>0, <2>1 DEF ReadMaterialized, rowVars, groupVars, processVars
  <2>2. CASE CreateBatch(b)
    <3>1. rows'[Job(w)] = rows[Job(w)] /\ status'[Job(w)] = status[Job(w)]
      BY <1>0, <2>2 DEF CreateBatch, CreationTypeOK, PassTypeOK
    <3>2. UNCHANGED <<rowVars, groupVars, groupClaim, processVars>>
      BY <2>2 DEF CreateBatch
    <3>. QED
      BY <1>0, <3>1, <3>2 DEF rowVars, groupVars, processVars
  <2>. QED
    BY <1>1, <2>1, <2>2 DEF Create
<1>2. ASSUME NEW b \in Batches, Start(b) \/ Resume(b) PROVE SmoothPass(w)'
  <2>1. status'[Job(w)] = status[Job(w)]
    BY <1>0, <1>2 DEF Start, Resume, SetStatus, PassTypeOK
  <2>2. UNCHANGED <<creationVars, rowVars, groupVars, groupClaim, pc, stage, item, had>>
    BY <1>2 DEF Start, Resume, SetStatus
  <2>. QED
    BY <1>0, <2>1, <2>2 DEF rowVars, groupVars, creationVars
<1>3. CASE LeaseExpires
  <2>1. /\ \A r \in Rows : rowClaim'[r] # None => rowClaim[r] # None
        /\ \A g \in Groups : groupClaim'[g] # None => groupClaim[g] # None
    BY <1>3 DEF LeaseExpires, PassTypeOK
  <2>2. UNCHANGED <<creationVars, status, attempts, identified, groupVars, processVars>>
    BY <1>3 DEF LeaseExpires
  <2>. QED
    BY <1>0, <2>1, <2>2 DEF processVars, groupVars, creationVars
<1>4. CASE UNCHANGED vars
  BY <1>0, <1>4 DEF vars, rowVars, groupVars, processVars, creationVars
<1>. QED
  BY <1>1, <1>2, <1>3, <1>4

\* A row is claimed: it is the one that the pass may leave unsettled.
LEMMA SmoothClaimRow ==
    ASSUME CreationTypeOK, PassTypeOK, FactsInv, scenario' = scenario,
           NEW w \in Workers, SmoothPass(w), Job(w) \in Batches, ClaimRow(w)
    PROVE  SmoothPass(w)'
<1>. DEFINE c == Min(NextRows(w))
<1>1. /\ c \in Paths /\ c \in rows[Job(w)] /\ stage[w] \in {1, 2}
      /\ ArchiveRow(c) <=> stage[w] = 1
  BY NextRowChosen DEF ClaimRow, NextRows, RowsFor, Claimable
<1>2. /\ pc[w] = "claim"
      /\ rowClaim' = [rowClaim EXCEPT ![<<Job(w), c>>] = w]
      /\ item' = [item EXCEPT ![w] = c]
      /\ had' = [had EXCEPT ![w] = @ \cup {c}]
      /\ pc' = [pc EXCEPT ![w] = IF stage[w] = 1 THEN "admit" ELSE "work"]
      /\ UNCHANGED <<rows, status, attempts, identified, groupState, groupClaim, stage>>
  BY DEF ClaimRow, creationVars, groupVars
<1>. HIDE DEF c
<1>3. /\ item'[w] = c /\ had'[w] = had[w] \cup {c} /\ pc'[w] \in {"admit", "work"}
      /\ \A v \in Workers \ {w} : pc'[v] = pc[v]
      /\ \A r \in Rows : rowClaim'[r] # None => rowClaim[r] # None \/ r = <<Job(w), c>>
  BY <1>2 DEF PassTypeOK
<1>4. Job(w)' = Job(w)
  BY DEF Job
<1>5. OnlyMine(w)'
  BY <1>1, <1>2, <1>3, <1>4 DEF SmoothPass, OnlyMine, Alone, Working, MyRow
<1>6. ArchivesBehind(w)' /\ FilesBehind(w)'
  BY <1>1, <1>2, <1>3, <1>4 DEF SmoothPass, ArchivesBehind, FilesBehind, Working
<1>7. GroupsBehind(w)' /\ BatchRuns(w)'
  BY <1>2, <1>3, <1>4 DEF SmoothPass, GroupsBehind, BatchRuns
<1>. QED
  BY <1>3, <1>5, <1>6, <1>7 DEF SmoothPass

\* A group is claimed.
LEMMA SmoothClaimGroup ==
    ASSUME PassTypeOK, scenario' = scenario, NEW w \in Workers, SmoothPass(w), ClaimGroup(w)
    PROVE  SmoothPass(w)'
<1>. DEFINE g == queue[SelectInSeq(queue, LAMBDA h : h \in NextGroups(w))]
<1>1. /\ pc[w] = "claim" /\ ~(stage[w] <= 2) /\ stage[w] > 2
      /\ groupClaim' = [groupClaim EXCEPT ![g] = w]
      /\ item' = [item EXCEPT ![w] = g]
      /\ pc' = [pc EXCEPT ![w] = IF stage[w] = 5 THEN "admit" ELSE "work"]
      /\ UNCHANGED <<rows, status, attempts, identified, rowClaim, groupState, stage, had>>
  <2>1. stage[w] > 2 /\ ~(stage[w] <= 2)
    <3>1. PICK h \in Groups : stage[w] >= 3
      BY DEF ClaimGroup, NextGroups
    <3>. QED
      BY <3>1 DEF PassTypeOK
  <2>2. /\ pc[w] = "claim"
        /\ groupClaim' = [groupClaim EXCEPT ![g] = w] /\ item' = [item EXCEPT ![w] = g]
        /\ pc' = [pc EXCEPT ![w] = IF stage[w] = 5 THEN "admit" ELSE "work"]
    BY DEF ClaimGroup
  <2>3. UNCHANGED <<rows, status, attempts, identified, rowClaim, groupState, stage, had>>
    BY DEF ClaimGroup, creationVars, groupVars, rowVars
  <2>. QED
    BY <2>1, <2>2, <2>3
<1>. HIDE DEF g
<1>2. /\ item'[w] = g /\ pc'[w] \in {"admit", "work"}
      /\ \A v \in Workers \ {w} : pc'[v] = pc[v]
      /\ \A h \in Groups : groupClaim'[h] # None => groupClaim[h] # None \/ h = g
  BY <1>1 DEF PassTypeOK
<1>3. Job(w)' = Job(w)
  BY DEF Job
<1>4. OnlyMine(w)'
  BY <1>1, <1>2, <1>3 DEF SmoothPass, OnlyMine, Alone, Working, MyRow
<1>5. ArchivesBehind(w)' /\ FilesBehind(w)'
  BY <1>1, <1>2, <1>3 DEF SmoothPass, ArchivesBehind, FilesBehind, Working, PassTypeOK
<1>6. GroupsBehind(w)' /\ BatchRuns(w)'
  BY <1>1, <1>2, <1>3 DEF SmoothPass, GroupsBehind, BatchRuns
<1>. QED
  BY <1>2, <1>4, <1>5, <1>6 DEF SmoothPass

\* A stage ends with nothing left that it could claim: no claim is outstanding, so
\* whatever is not settled would have been selected.
LEMMA SmoothEndStage ==
    ASSUME CreationTypeOK, PassTypeOK, FactsInv, scenario' = scenario,
           NEW w \in Workers, SmoothPass(w), Job(w) \in Batches, EndStage(w)
    PROVE  SmoothPass(w)'
<1>1. /\ pc[w] = "claim" /\ NextRows(w) = {} /\ NextGroups(w) = {}
      /\ NextStage(w)
      /\ UNCHANGED <<rows, status, attempts, identified, rowClaim, groupState, groupClaim, item>>
  BY DEF EndStage, creationVars, groupVars, rowVars
<1>2. stage[w] \in 1..5 /\ Job(w)' = Job(w)
  BY DEF PassTypeOK, Job
<1>3. /\ IF stage[w] < 5 THEN stage'[w] = stage[w] + 1 /\ pc'[w] = "claim"
                         ELSE stage'[w] = 5 /\ pc'[w] = "complete"
      /\ had'[w] = {}
      /\ \A v \in Workers \ {w} : pc'[v] = pc[v]
  BY <1>1, <1>2 DEF NextStage, Stages, PassTypeOK
<1>4. /\ \A r \in Rows : rowClaim[r] = None
      /\ \A g \in Groups : groupClaim[g] = None
  BY <1>1 DEF SmoothPass, OnlyMine, Working
<1>5. OnlyMine(w)'
  BY <1>1, <1>3, <1>4 DEF SmoothPass, OnlyMine, Alone
<1>6. \A c \in rows[Job(w)] :
         (stage[w] \in {1, 2} /\ (ArchiveRow(c) <=> stage[w] = 1))
         => c \in had[w] \/ <<Job(w), c>> \in identified \/ "SUCCEEDED" \in attempts[<<Job(w), c>>]
  <2>1. \A c \in rows[Job(w)] : c \in Paths /\ <<Job(w), c>> \in Rows
    BY DEF CreationTypeOK, Rows
  <2>2. status[Job(w)] = "RUNNING"
    BY <1>1 DEF SmoothPass, BatchRuns
  <2>. QED
    BY <1>1, <1>4, <2>1, <2>2 DEF NextRows, RowsFor, Claimable
<1>7. ArchivesBehind(w)'
  <2>. SUFFICES ASSUME NEW c \in rows[Job(w)], ArchiveRow(c), stage'[w] > 1
                PROVE  attempts[<<Job(w), c>>] \cap {"SUCCEEDED", "DURABLE"} # {}
    BY <1>1, <1>2, <1>3 DEF ArchivesBehind
  <2>1. CASE stage[w] > 1
    BY <1>1, <2>1 DEF SmoothPass, ArchivesBehind, Working
  <2>2. CASE stage[w] = 1
    <3>1. CASE c \in had[w]
      BY <1>1, <3>1 DEF SmoothPass, ArchivesBehind, Working
    <3>2. CASE c \notin had[w]
      BY <1>6, <2>2, <3>2 DEF FactsInv, IdentifiedTrue
    <3>. QED
      BY <3>1, <3>2
  <2>. QED
    BY <1>2, <2>1, <2>2
<1>8. FilesBehind(w)'
  <2>. SUFFICES ASSUME NEW c \in rows[Job(w)], ~ArchiveRow(c), stage'[w] > 2
                PROVE  <<Job(w), c>> \in identified
    BY <1>1, <1>2, <1>3 DEF FilesBehind
  <2>0. c \in Paths
    BY DEF CreationTypeOK
  <2>1. CASE stage[w] > 2
    BY <1>1, <2>1 DEF SmoothPass, FilesBehind, Working
  <2>2. CASE stage[w] = 2
    <3>1. CASE c \in had[w]
      BY <1>1, <2>2, <3>1 DEF SmoothPass, FilesBehind, Working
    <3>2. CASE c \notin had[w]
      BY <1>6, <2>0, <2>2, <3>2 DEF FactsInv, IdentifiedTrue
    <3>. QED
      BY <3>1, <3>2
  <2>. QED
    BY <1>2, <1>3, <2>1, <2>2
<1>9. GroupsBehind(w)'
  <2>1. \A g \in Groups : stage[w] >= 3 => groupState[g] \notin ClaimedFrom[stage[w]]
    BY <1>1, <1>4 DEF NextGroups
  <2>2. /\ ClaimedFrom[3] = {"EXTRACTED"} /\ ClaimedFrom[4] = {"NORMALIZED"}
        /\ ClaimedFrom[5] = {"CHUNKED", "EMBEDDED"}
    BY DEF ClaimedFrom
  <2>3. \A g \in Groups : /\ stage[w] = 3 => groupState[g] # "EXTRACTED"
                          /\ stage[w] = 4 => groupState[g] # "NORMALIZED"
                          /\ stage[w] = 5 => groupState[g] \notin {"CHUNKED", "EMBEDDED"}
    BY <2>1, <2>2
  <2>. QED
    BY <1>1, <1>2, <1>3, <2>3 DEF SmoothPass, GroupsBehind
<1>10. BatchRuns(w)'
  BY <1>1, <1>2, <1>3 DEF SmoothPass, BatchRuns
<1>. QED
  BY <1>3, <1>5, <1>7, <1>8, <1>9, <1>10 DEF SmoothPass

\* An archive is admitted.
LEMMA SmoothAdmitArchive ==
    ASSUME PassTypeOK, scenario' = scenario, NEW w \in Workers, SmoothPass(w),
           AdmitArchive(w), smooth'[w]
    PROVE  SmoothPass(w)'
<1>1. /\ pc[w] = "admit"
      /\ UNCHANGED <<rows, status, attempts, identified, groupState, groupClaim>>
  BY DEF AdmitArchive, creationVars, groupVars
<1>2. ~Denied(w)
  BY DEF Denied, PassTypeOK
<1>3. /\ pc' = [pc EXCEPT ![w] = "work"]
      /\ UNCHANGED <<rowClaim, stage, item, had>>
  BY <1>2 DEF AdmitArchive
<1>4. /\ pc'[w] = "work" /\ \A v \in Workers \ {w} : pc'[v] = pc[v]
      /\ Job(w)' = Job(w)
  BY <1>3 DEF PassTypeOK, Job
<1>. QED
  BY <1>1, <1>3, <1>4 DEF SmoothPass, OnlyMine, Alone, ArchivesBehind, FilesBehind, GroupsBehind,
      BatchRuns, Working, MyRow

\* The end of a call of a source stage: the claim is gone, the stage goes on.
LEMMA OverRow ==
    ASSUME PassTypeOK, scenario' = scenario, NEW w \in Workers, SmoothPass(w),
           pc[w] = "work", stage[w] \in {1, 2}, ReleaseRow(w), Over(w),
           UNCHANGED <<groupClaim, stage>>
    PROVE  /\ OnlyMine(w)' /\ pc'[w] = "claim" /\ Job(w)' = Job(w)
<1>1. /\ pc'[w] = "claim" /\ \A v \in Workers \ {w} : pc'[v] = pc[v]
      /\ Job(w)' = Job(w)
  BY DEF Over, PassTypeOK, Job
<1>2. \A r \in Rows : rowClaim'[r] = None
  BY DEF ReleaseRow, SmoothPass, OnlyMine, PassTypeOK
<1>3. \A g \in Groups : groupClaim'[g] = None
  BY DEF SmoothPass, OnlyMine
<1>. QED
  BY <1>1, <1>2, <1>3 DEF SmoothPass, OnlyMine, Alone

\* An archive is processed, or fails for good: either way its row is settled.
LEMMA SmoothProcess ==
    ASSUME CreationTypeOK, PassTypeOK, FactsInv, scenario' = scenario,
           NEW w \in Workers, SmoothPass(w), Job(w) \in Batches, ProcessArchive(w), smooth'[w]
    PROVE  SmoothPass(w)'
<1>1. /\ pc[w] = "work" /\ stage[w] = 1 /\ ReleaseRow(w) /\ Over(w)
      /\ UNCHANGED <<rows, status, identified, groupClaim, stage, had>>
  BY DEF ProcessArchive, creationVars
<1>2. OnlyMine(w)' /\ pc'[w] = "claim" /\ Job(w)' = Job(w)
  BY <1>1, OverRow
<1>3. ~FailRetryably(w)
  BY DEF FailRetryably, PassTypeOK
<1>4. Attempted(w, "SUCCEEDED") \/ Attempted(w, "DURABLE")
  BY <1>3 DEF ProcessArchive
<1>5. MyRow(w) \in Rows
  BY <1>1 DEF FactsInv, ItemFits, Working, MyRow, Rows
<1>6. /\ \A r \in Rows : attempts[r] \subseteq attempts'[r]
      /\ attempts'[MyRow(w)] \cap {"SUCCEEDED", "DURABLE"} # {}
  <2>1. PICK o \in {"SUCCEEDED", "DURABLE"} : Attempted(w, o)
    BY <1>4
  <2>2. DOMAIN attempts = Rows
    BY DEF PassTypeOK
  <2>3. attempts'[MyRow(w)] = attempts[MyRow(w)] \cup {o}
    BY <1>5, <2>1, <2>2 DEF Attempted
  <2>4. \A r \in Rows : r # MyRow(w) => attempts'[r] = attempts[r]
    BY <2>1, <2>2 DEF Attempted
  <2>. QED
    BY <2>3, <2>4
<1>7. ArchivesBehind(w)'
  <2>. SUFFICES ASSUME NEW c \in rows[Job(w)], ArchiveRow(c), c \in had[w]
                PROVE  attempts'[<<Job(w), c>>] \cap {"SUCCEEDED", "DURABLE"} # {}
    BY <1>1, <1>2 DEF ArchivesBehind
  <2>1. <<Job(w), c>> \in Rows
    BY DEF CreationTypeOK, Rows
  <2>2. CASE c = item[w]
    BY <1>6, <2>2 DEF MyRow
  <2>3. CASE c # item[w]
    BY <1>6, <2>1, <2>3 DEF SmoothPass, ArchivesBehind
  <2>. QED
    BY <2>2, <2>3
<1>8. FilesBehind(w)' /\ GroupsBehind(w)' /\ BatchRuns(w)'
  BY <1>1, <1>2 DEF SmoothPass, FilesBehind, GroupsBehind, BatchRuns
<1>. QED
  BY <1>2, <1>7, <1>8 DEF SmoothPass

\* A file's content is identified.
LEMMA SmoothResolve ==
    ASSUME CreationTypeOK, PassTypeOK, FactsInv, scenario' = scenario,
           NEW w \in Workers, SmoothPass(w), Job(w) \in Batches, ResolveFile(w), smooth'[w]
    PROVE  SmoothPass(w)'
<1>1. /\ pc[w] = "work" /\ stage[w] = 2 /\ ReleaseRow(w) /\ Over(w)
      /\ UNCHANGED <<rows, status, groupClaim, stage, had>>
  BY DEF ResolveFile, creationVars
<1>2. OnlyMine(w)' /\ pc'[w] = "claim" /\ Job(w)' = Job(w)
  BY <1>1, OverRow
<1>3. ~FailRetryably(w)
  BY DEF FailRetryably, PassTypeOK
<1>4. Attempted(w, "SUCCEEDED") /\ identified' = identified \cup {MyRow(w)}
  BY <1>3 DEF ResolveFile
<1>5. \A r \in Rows : attempts[r] \subseteq attempts'[r]
  BY <1>4 DEF Attempted, PassTypeOK
<1>6. ArchivesBehind(w)'
  <2>. SUFFICES ASSUME NEW c \in rows[Job(w)], ArchiveRow(c)
                PROVE  attempts'[<<Job(w), c>>] \cap {"SUCCEEDED", "DURABLE"} # {}
    BY <1>1, <1>2 DEF ArchivesBehind
  <2>1. <<Job(w), c>> \in Rows
    BY DEF CreationTypeOK, Rows
  <2>. QED
    BY <1>1, <1>5, <2>1 DEF SmoothPass, ArchivesBehind
<1>7. FilesBehind(w)'
  BY <1>1, <1>2, <1>4 DEF SmoothPass, FilesBehind, MyRow
<1>8. GroupsBehind(w)' /\ BatchRuns(w)'
  BY <1>1, <1>2 DEF SmoothPass, GroupsBehind, BatchRuns
<1>. QED
  BY <1>2, <1>6, <1>7, <1>8 DEF SmoothPass

\* A group leaves its stage for a state from which no stage claims that is over.
LEMMA SmoothLeave ==
    ASSUME PassTypeOK, scenario' = scenario, NEW w \in Workers, SmoothPass(w),
           Working(w), stage[w] > 2,
           NEW state, Leave(w, state),
           stage[w] > 3 => state # "EXTRACTED", stage[w] > 4 => state # "NORMALIZED",
           UNCHANGED <<rows, status, rowClaim, attempts, identified, stage, had>>
    PROVE  SmoothPass(w)'
<1>1. /\ groupState' = [groupState EXCEPT ![item[w]] = state]
      /\ groupClaim' = [groupClaim EXCEPT ![item[w]] = None]
      /\ Over(w)
  BY DEF Leave
<1>2. /\ pc'[w] = "claim" /\ \A v \in Workers \ {w} : pc'[v] = pc[v]
      /\ Job(w)' = Job(w)
  BY <1>1 DEF Over, PassTypeOK, Job
<1>3. OnlyMine(w)'
  <2>1. \A r \in Rows : rowClaim'[r] = None
    BY DEF SmoothPass, OnlyMine, PassTypeOK
  <2>2. \A g \in Groups : groupClaim'[g] = None
    BY <1>1 DEF SmoothPass, OnlyMine, PassTypeOK
  <2>. QED
    BY <1>2, <2>1, <2>2 DEF SmoothPass, OnlyMine, Alone
<1>4. ArchivesBehind(w)' /\ FilesBehind(w)'
  BY <1>2 DEF SmoothPass, ArchivesBehind, FilesBehind, PassTypeOK
<1>5. GroupsBehind(w)'
  <2>1. \A g \in Groups : groupState'[g] = groupState[g] \/ groupState'[g] = state
    BY <1>1 DEF PassTypeOK
  <2>. QED
    BY <1>2, <2>1 DEF SmoothPass, GroupsBehind
<1>6. BatchRuns(w)'
  BY <1>2 DEF SmoothPass, BatchRuns, Working
<1>. QED
  BY <1>2, <1>3, <1>4, <1>5, <1>6 DEF SmoothPass

\* A pass without failures stays one when it prepares a group,
LEMMA SmoothPrepare ==
    ASSUME PassTypeOK, scenario' = scenario, NEW w \in Workers, SmoothPass(w), PrepareGroup(w)
    PROVE  SmoothPass(w)'
<1>1. /\ pc[w] = "work" /\ stage[w] \in {3, 4}
      /\ UNCHANGED <<rows, status, rowClaim, attempts, identified, stage, had>>
  BY DEF PrepareGroup, creationVars, rowVars
<1>2. CASE stage[w] = 3 /\ Leave(w, "NORMALIZED")
  BY <1>1, <1>2, SmoothLeave DEF Working
<1>3. CASE stage[w] = 4 /\ Leave(w, "CHUNKED")
  BY <1>1, <1>3, SmoothLeave DEF Working
<1>4. CASE Leave(w, "FAILED")
  BY <1>1, <1>4, SmoothLeave DEF Working
<1>. QED
  BY <1>2, <1>3, <1>4 DEF PrepareGroup

\* when it admits a group,
LEMMA SmoothAdmitGroup ==
    ASSUME PassTypeOK, scenario' = scenario, NEW w \in Workers, SmoothPass(w),
           AdmitGroup(w), smooth'[w]
    PROVE  SmoothPass(w)'
<1>1. /\ pc[w] = "admit" /\ stage[w] = 5
      /\ UNCHANGED <<rows, status, rowClaim, attempts, identified>>
  BY DEF AdmitGroup, creationVars, rowVars
<1>2. ~Denied(w)
  BY DEF Denied, PassTypeOK
<1>3. CASE /\ Leave(w, IF item[w] \in documents THEN "INGESTED" ELSE "FAILED")
           /\ UNCHANGED <<stage, had>>
  BY <1>1, <1>3, SmoothLeave DEF Working
<1>4. CASE /\ pc' = [pc EXCEPT ![w] = "work"]
           /\ UNCHANGED <<groupState, groupClaim, stage, item, had>>
  <2>1. /\ pc'[w] = "work" /\ \A v \in Workers \ {w} : pc'[v] = pc[v]
        /\ Job(w)' = Job(w)
    BY <1>4 DEF PassTypeOK, Job
  <2>. QED
    BY <1>1, <1>4, <2>1 DEF SmoothPass, OnlyMine, Alone, ArchivesBehind, FilesBehind,
        GroupsBehind, BatchRuns, Working, MyRow
<1>. QED
  BY <1>2, <1>3, <1>4 DEF AdmitGroup

\* and when it embeds one.
LEMMA SmoothEmbed ==
    ASSUME PassTypeOK, scenario' = scenario, NEW w \in Workers, SmoothPass(w), EmbedGroup(w)
    PROVE  SmoothPass(w)'
<1>1. /\ pc[w] = "work" /\ stage[w] = 5
      /\ UNCHANGED <<rows, status, rowClaim, attempts, identified, stage, had>>
      /\ Leave(w, "INGESTED") \/ Leave(w, "EMBEDDED") \/ Leave(w, "FAILED")
  BY DEF EmbedGroup, creationVars, rowVars
<1>. QED
  BY <1>1, SmoothLeave DEF Working

\* A file whose content is identified has reached an end, when no group is left in a
\* state from which a stage claims.
LEMMA EndReached ==
    ASSUME PassTypeOK, HeldKnown, NEW w \in Workers, Job(w) \in Batches,
           pc[w] \in {"complete", "rest"}, stage[w] = 5, GroupsBehind(w)
    PROVE  \A g \in holds[Job(w)] : groupState[g] \in TerminalStates
<1>1. \A g \in holds[Job(w)] : g \in Groups /\ groupState[g] \in GroupStates
  BY DEF PassTypeOK
<1>2. \A g \in holds[Job(w)] : groupState[g] \notin {"ABSENT", "EXTRACTED", "NORMALIZED", "CHUNKED", "EMBEDDED"}
  BY <1>1 DEF HeldKnown, GroupsBehind
<1>. QED
  BY <1>1, <1>2 DEF GroupStates, StartStates, TerminalStates

\* check_and_complete finds nothing that is not settled.
LEMMA SmoothComplete ==
    ASSUME CreationTypeOK, PassTypeOK, FactsInv, scenario' = scenario,
           NEW w \in Workers, SmoothPass(w), Job(w) \in Batches, Complete(w)
    PROVE  SmoothPass(w)'
<1>1. /\ pc[w] = "complete" /\ stage[w] = 5
      /\ pc' = [pc EXCEPT ![w] = "rest"]
      /\ UNCHANGED <<rows, rowClaim, attempts, identified, groupState, groupClaim, stage, item,
                     had>>
  BY DEF Complete, creationVars, rowVars, groupVars, SmoothPass, BatchRuns
<1>2. /\ pc'[w] = "rest" /\ \A v \in Workers \ {w} : pc'[v] = pc[v]
      /\ Job(w)' = Job(w)
  BY <1>1 DEF PassTypeOK, Job
<1>3. ASSUME NEW c \in rows[Job(w)]
      PROVE  RowAttempted(Job(w), c) /\ RowTerminal(Job(w), c)
  <2>1. c \in Paths
    BY DEF CreationTypeOK
  <2>2. CASE ArchiveRow(c)
    <3>1. attempts[<<Job(w), c>>] \cap {"SUCCEEDED", "DURABLE"} # {}
      BY <1>1, <2>2 DEF SmoothPass, ArchivesBehind, Working
    <3>. QED
      BY <2>2, <3>1 DEF RowAttempted, RowTerminal, ArchiveRow, SourceCategory
  <2>3. CASE ~ArchiveRow(c)
    <3>1. <<Job(w), c>> \in identified
      BY <1>1, <2>3 DEF SmoothPass, FilesBehind, Working
    <3>2. /\ "SUCCEEDED" \in attempts[<<Job(w), c>>]
          /\ ContentOf[c] \in holds[Job(w)]
      BY <3>1 DEF FactsInv, IdentifiedTrue
    <3>3. groupState[ContentOf[c]] \in TerminalStates
      BY <1>1, <3>2, EndReached DEF SmoothPass, FactsInv
    <3>. QED
      BY <3>1, <3>2, <3>3 DEF RowAttempted, RowTerminal
  <2>. QED
    BY <2>2, <2>3
<1>4. status'[Job(w)] = "COMPLETED"
  <2>1. status[Job(w)] = "RUNNING"
    BY <1>1 DEF SmoothPass, BatchRuns
  <2>. QED
    BY <1>3, <2>1 DEF Complete, PassTypeOK
<1>5. OnlyMine(w)'
  BY <1>1, <1>2 DEF SmoothPass, OnlyMine, Alone, Working
<1>6. ArchivesBehind(w)' /\ FilesBehind(w)' /\ GroupsBehind(w)'
  BY <1>1, <1>2 DEF SmoothPass, ArchivesBehind, FilesBehind, GroupsBehind, Working
<1>. QED
  BY <1>1, <1>2, <1>4, <1>5, <1>6 DEF SmoothPass, BatchRuns

\* A pass that begins alone, with no claim outstanding, has nothing behind it.
LEMMA SmoothBegin ==
    ASSUME PassTypeOK, scenario' = scenario, NEW w \in Workers, Begin(w), smooth'[w]
    PROVE  SmoothPass(w)'
<1>1. /\ Alone(w) /\ Unclaimed /\ status[Job(w)] = "RUNNING"
      /\ pc' = [pc EXCEPT ![w] = "claim"]
      /\ stage' = [stage EXCEPT ![w] = 1]
      /\ had' = [had EXCEPT ![w] = {}]
      /\ UNCHANGED <<status, rowClaim, groupClaim>>
  BY DEF Begin, rowVars
<1>2. /\ pc'[w] = "claim" /\ stage'[w] = 1 /\ had'[w] = {}
      /\ \A v \in Workers \ {w} : pc'[v] = pc[v]
      /\ Job(w)' = Job(w)
  BY <1>1 DEF PassTypeOK, Job
<1>. QED
  BY <1>1, <1>2 DEF SmoothPass, OnlyMine, Alone, Unclaimed, ArchivesBehind, FilesBehind,
      GroupsBehind, BatchRuns

\* A smooth pass stays smooth only by its own steps, and those that meet an obstacle
\* say so.
LEMMA SmoothKept ==
    CreationTypeOK /\ PassTypeOK /\ PassTypeOK' /\ FactsInv /\ SmoothPasses /\ [Next]_vars
    => SmoothPasses'
<1>. SUFFICES ASSUME CreationTypeOK, PassTypeOK, PassTypeOK', FactsInv, SmoothPasses,
                     [Next]_vars, NEW w \in Workers, smooth'[w], pc'[w] # "done"
              PROVE  SmoothPass(w)'
  BY DEF SmoothPasses
<1>0. scenario' = scenario
  BY DEF Next, vars
<1>1. CASE \/ \E b \in Batches : Create(b) \/ Start(b) \/ Resume(b)
           \/ LeaseExpires
           \/ UNCHANGED vars
  <2>1. smooth' = smooth /\ pc' = pc
    BY <1>1 DEF Create, ReadMaterialized, CreateBatch, Start, Resume, SetStatus, LeaseExpires,
        vars, processVars
  <2>2. SmoothPass(w)
    BY <2>1 DEF SmoothPasses
  <2>. QED
    BY <1>0, <1>1, <2>2, AroundSmooth
<1>2. ASSUME NEW b \in Batches, Pause(b) PROVE FALSE
  BY <1>2 DEF Pause
<1>3. ASSUME NEW g \in Groups, ResetGroup(g) PROVE FALSE
  BY <1>3 DEF ResetGroup
<1>4. ASSUME NEW v \in Workers, Die(v) PROVE FALSE
  <2>1. pc[v] \notin {"idle", "done"} /\ smooth' = [smooth EXCEPT ![v] = FALSE]
    BY <1>4 DEF Die
  <2>2. v # w /\ smooth[w] /\ pc[w] # "done"
    BY <1>4, <2>1 DEF Die, PassTypeOK
  <2>3. Alone(w)
    BY <2>2 DEF SmoothPasses, SmoothPass, OnlyMine
  <2>. QED
    BY <2>1, <2>2, <2>3 DEF Alone
<1>5. ASSUME NEW v \in Workers, Step(v) PROVE SmoothPass(w)'
  <2>0. Job(v) \in Batches
    BY <1>5, ScopeAssumption DEF Step, Job, PassTypeOK
  <2>1. CASE Begin(v)
    <3>1. v = w
      BY <2>1 DEF Begin
    <3>. QED
      BY <1>0, <2>1, <3>1, SmoothBegin
  <2>2. CASE ~Begin(v)
    <3>1. /\ pc[v] \notin {"idle", "done"}
          /\ \A u \in Workers \ {v} : pc'[u] = pc[u] /\ smooth'[u] = smooth[u]
          /\ smooth'[v] => smooth[v]
      BY <1>5, <2>2, ZenonT(60)
         DEF Step, Return, ClaimRow, ClaimGroup, EndStage, AdmitArchive,
          ProcessArchive, ResolveFile, PrepareGroup, AdmitGroup, EmbedGroup, Complete, NextStage,
          Denied, Over, Leave, FailRetryably, PassTypeOK
    <3>2. smooth[w] /\ pc[w] # "done"
      BY <3>1
    <3>3. SmoothPass(w)
      BY <3>2 DEF SmoothPasses
    <3>4. v = w
      BY <3>1, <3>3 DEF SmoothPass, OnlyMine, Alone
    <3>5. ~Return(w)
      BY DEF Return, PassTypeOK
    <3>. QED
      BY <1>0, <1>5, <2>0, <2>2, <3>3, <3>4, <3>5, SmoothClaimRow, SmoothClaimGroup,
         SmoothEndStage, SmoothAdmitArchive, SmoothProcess, SmoothResolve, SmoothPrepare,
         SmoothAdmitGroup, SmoothEmbed, SmoothComplete DEF Step
  <2>. QED
    BY <2>1, <2>2
<1>. QED
  BY <1>1, <1>2, <1>3, <1>4, <1>5 DEF Next

\* The pass's invariant holds of every behaviour.
THEOREM PassInvariance == Spec => []PassInv
<1>1. Init => PassInv
  BY PassInit
<1>2. CreationInv /\ PassInv /\ [Next]_vars => PassInv'
  BY PassTypes, FactsKept, SmoothKept DEF PassInv, FactsInv, CreationInv
<1>. QED
  BY <1>1, <1>2, Invariance, PTL DEF Spec

\* One pass that met no obstacle and had the database to itself leaves its batch
\* completed, and no content that was found in it short of an end of the pipeline.
THEOREM OnePassIsEnough == Spec => []OnePassSuffices
<1>1. PassInv => OnePassSuffices
  <2>. SUFFICES ASSUME PassInv, NEW w \in Workers, pc[w] = "rest", smooth[w]
                PROVE  /\ status[Job(w)] = "COMPLETED"
                       /\ \A g \in holds[Job(w)] : groupState[g] \in TerminalStates
    BY DEF OnePassSuffices
  <2>1. SmoothPass(w) /\ Job(w) \in Batches
    BY DEF PassInv, SmoothPasses, ItemFits
  <2>. QED
    BY <2>1, EndReached DEF PassInv, SmoothPass, BatchRuns
<1>. QED
  BY <1>1, PassInvariance, PTL
=============================================================================
