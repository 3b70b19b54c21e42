------------------------ MODULE SourceIngestionProofs ------------------------
(***************************************************************************)
(* Theorems about SourceIngestion, for every batch of files and archives,  *)
(* every number of workers, every walk and every scenario; and about       *)
(* ImportJob, for every source, its archives and any number of calls.      *)
(***************************************************************************)
EXTENDS SourceIngestion, ImportJob, SumTheorems

\* The steps of a leaf, of a walk, and those in which bytes are reserved.
Looking == {"find", "create", "write", "writing", "assign"}
Walking == {"visit", "insert", "settle"} \cup Looking
Reserving == {"extract", "giveBack"} \cup Walking

\* What a step of an attempt knows about its own locals.
LocalOK(w) ==
    /\ pc[w] = "idle" <=> inst[w] = None
    /\ inst[w] # None => inst[w] \in scenario.roots
    /\ pc[w] = "read" => inst[w] \in Files
    /\ pc[w] \in {"admit", "extract", "visit", "insert", "settle", "giveBack"}
           => inst[w] \in Archives
    /\ pc[w] = "visit" => at[w] >= 1
    /\ pc[w] = "insert" \/ (pc[w] \in Looking /\ inst[w] \in Archives)
           => at[w] \in DOMAIN Walk[inst[w]]
    /\ pc[w] \in Looking \ {"find"} \/ (pc[w] = "find" /\ inst[w] \in Files)
           => read[w] \in Groups
    /\ pc[w] = "record" => result[w] \in Outcomes
    /\ pc[w] = "giveBack" => result[w] \in Outcomes \ {"SUCCEEDED"}

LocalsOK == \A w \in Workers : LocalOK(w)

TypeInv == TypeOK /\ LocalsOK

\* The first rows, groups and workers are well typed.
LEMMA TypeInit == Init => TypeInv
<1>. SUFFICES ASSUME Init PROVE TypeInv
  OBVIOUS
<1>. USE RowsAssumption, ScopeAssumption DEF Init
<1>1. RowTypeOK /\ GroupTypeOK
  BY DEF RowTypeOK, GroupTypeOK, GroupStates
<1>2. BatchTypeOK
  BY DEF BatchTypeOK, BatchStatus, ReportSteps
<1>3. WorkerTypeOK /\ LocalsOK
  BY DEF WorkerTypeOK, LocalsOK, LocalOK, Steps, Unloaded, Looking
<1>. QED
  BY <1>1, <1>2, <1>3 DEF TypeInv, TypeOK

\* The row that a worker is at, and what it is.
LEMMA ItemType ==
    ASSUME TypeInv, NEW w \in Workers,
           pc[w] \in Looking \/ pc[w] = "read" \/ pc[w] = "insert"
    PROVE  /\ inst[w] \in Roots \cap scenario.roots
           /\ inst[w] \in Archives => Walk[inst[w]][at[w]] \in Members
           /\ pc[w] = "insert" => inst[w] \in Archives
           /\ pc[w] # "insert" => Item(w) \in Items
<1>1. inst[w] # None /\ inst[w] \in Roots \cap scenario.roots
  BY RowsAssumption DEF TypeInv, TypeOK, WorkerTypeOK, LocalsOK, LocalOK, Looking
<1>2. inst[w] \in Archives => Walk[inst[w]] \in Seq(Members) /\ at[w] \in DOMAIN Walk[inst[w]]
  BY <1>1, WalkAssumption, RowsAssumption DEF TypeInv, LocalsOK, LocalOK, Looking
<1>3. inst[w] \in Archives => Walk[inst[w]][at[w]] \in Members
  BY <1>2
<1>4. pc[w] = "insert" => inst[w] \in Archives
  BY DEF TypeInv, LocalsOK, LocalOK
<1>. QED
  BY <1>1, <1>3, <1>4 DEF Item, Items, Roots

\* A read of a leaf finds a content.
LEMMA ReadType ==
    ASSUME TypeInv, NEW w \in Workers, Item(w) \in Items, HasRead(w)
    PROVE  /\ read' \in [Workers -> Groups \cup {None}]
           /\ read'[w] \in Groups
           /\ \A v \in Workers \ {w} : read'[v] = read[v]
<1>1. PICK g \in ContentOf[Item(w)] : read' = [read EXCEPT ![w] = g]
  BY DEF HasRead
<1>2. g \in Groups
  BY <1>1, ContentAssumption
<1>. QED
  BY <1>1, <1>2 DEF TypeInv, TypeOK, WorkerTypeOK

\* The file that a worker writes to.
LEMMA TargetType ==
    ASSUME TypeInv, NEW w \in Workers, pc[w] \in Looking \ {"find"}
    PROVE  /\ Item(w) \in Items /\ read[w] \in Groups
           /\ Target(w) \in WorkspaceFiles
<1>1. Item(w) \in Items
  BY ItemType DEF Looking
<1>2. read[w] \in Groups
  BY DEF TypeInv, LocalsOK, LocalOK
<1>. QED
  BY <1>1, <1>2 DEF Target, WorkspaceFiles

\* The rows of source_instances: a claim, its end, an identity, a new member
\* and a recorded attempt touch them.
LEMMA RowTypes == TypeInv /\ [Next]_vars => RowTypeOK'
<1>. SUFFICES ASSUME TypeInv, [Next]_vars PROVE RowTypeOK'
  OBVIOUS
<1>. USE RowsAssumption
<1>. USE DEF RowTypeOK, WorkerTypeOK, claimVars, groupVars, batchVars, localVars, reportVars
<1>0. RowTypeOK /\ WorkerTypeOK /\ LocalsOK
  BY DEF TypeInv, TypeOK
<1>1. ASSUME NEW w \in Workers, NEW i \in scenario.roots, Claim(w, i) PROVE RowTypeOK'
  <2>1. i \in Roots
    BY ScopeAssumption DEF TypeInv, TypeOK
  <2>. QED
    BY <1>0, <1>1, <2>1 DEF Claim
<1>2. ASSUME NEW w \in Workers, Release(w) PROVE RowTypeOK'
  BY <1>0, <1>2 DEF Release
<1>3. ASSUME NEW w \in Workers, Assign(w) PROVE RowTypeOK'
  <2>1. pc[w] = "assign" /\ pc[w] \in Looking
    BY <1>3 DEF Assign, Looking
  <2>2. Item(w) \in Items /\ read[w] \in Groups
    BY <2>1, ItemType DEF TypeInv, LocalsOK, LocalOK
  <2>3. Item(w) \in Roots \cup Members
    BY <2>2 DEF Items, Roots
  <2>. QED
    BY <1>0, <1>3, <2>2, <2>3 DEF Assign
<1>4. ASSUME NEW w \in Workers, Insert(w) PROVE RowTypeOK'
  <2>1. Walk[inst[w]][at[w]] \in Members
    BY <1>4, ItemType DEF Insert
  <2>. QED
    BY <1>0, <1>4, <2>1 DEF Insert
<1>5. ASSUME NEW w \in Workers, Record(w) PROVE RowTypeOK'
  <2>1. inst[w] \in Roots /\ result[w] \in Outcomes
    BY <1>0, <1>5 DEF LocalsOK, LocalOK, Record
  <2>. QED
    BY <1>0, <1>5, <2>1 DEF Record
<1>6. ASSUME NEW i \in Roots, LeaseExpires(i) PROVE RowTypeOK'
  BY <1>0, <1>6 DEF LeaseExpires
<1>7. CASE UNCHANGED <<identity, rows, claimVars, attempts>>
  BY <1>0, <1>7
<1>8. ASSUME NEW w \in Workers,
             ReadClaim(w) \/ ReadFile(w) \/ Find(w) \/ Create(w) \/ BeginWrite(w) \/
             WriteContent(w) \/ Admit(w)
             \/ Extract(w) \/ Visit(w) \/ Settle(w) \/ GiveBack(w) \/ Crash(w)
      PROVE  UNCHANGED <<identity, rows, claimVars, attempts>>
  BY <1>8 DEF ReadClaim, ReadFile, Find, Create, BeginWrite, WriteContent, CannotWrite, Admit,
     Extract, Visit,
      Settle, GiveBack, Crash
<1>9. ASSUME Reconcile \/ (\E g \in Groups : AttemptGroup(g) \/ SettleGroup(g))
             \/ (\E s \in BatchStatus : ControlBatch(s))
      PROVE  UNCHANGED <<identity, rows, claimVars, attempts>>
  BY <1>9 DEF Reconcile, ReportAttempted, ReportTerminal, ReportSuccessful, Decide,
      AttemptGroup, SettleGroup, ControlBatch
<1>10. CASE UNCHANGED vars
  BY <1>7, <1>10 DEF vars
<1>. QED
  BY <1>1, <1>2, <1>3, <1>4, <1>5, <1>6, <1>7, <1>8, <1>9, <1>10 DEF Next, WorkerStep

\* The groups and what the workspace holds of them.
LEMMA GroupTypes == TypeInv /\ [Next]_vars => GroupTypeOK'
<1>. SUFFICES ASSUME TypeInv, [Next]_vars PROVE GroupTypeOK'
  OBVIOUS
<1>. USE DEF GroupTypeOK, groupVars
<1>0. GroupTypeOK /\ LocalsOK
  BY DEF TypeInv, TypeOK
<1>1. ASSUME NEW w \in Workers, Create(w) PROVE GroupTypeOK'
  <2>1. Item(w) \in Items
    BY <1>1, ItemType DEF Create, Looking
  <2>2. InitialState(Eligibility[Item(w)]) \in GroupStates
    BY <2>1, ContentAssumption DEF InitialState, GroupStates, Eligibilities
  <2>. QED
    BY <1>0, <1>1, <2>2 DEF Create
<1>2. ASSUME NEW w \in Workers, BeginWrite(w) \/ WriteContent(w) PROVE GroupTypeOK'
  <2>1. pc[w] \in Looking \ {"find"}
    BY <1>2 DEF BeginWrite, WriteContent, Looking
  <2>2. Target(w) \in WorkspaceFiles
    BY <2>1, TargetType
  <2>. QED
    BY <1>0, <1>2, <2>2 DEF BeginWrite, WriteContent
<1>3. ASSUME NEW g \in Groups, AttemptGroup(g) \/ SettleGroup(g) PROVE GroupTypeOK'
  BY <1>0, <1>3 DEF AttemptGroup, SettleGroup, GroupStates
<1>4. CASE UNCHANGED groupVars
  BY <1>0, <1>4
<1>5. ASSUME NEW w \in Workers,
             ReadClaim(w) \/ ReadFile(w) \/ Find(w) \/ Assign(w) \/ Admit(w) \/ Extract(w)
             \/ Visit(w) \/ Insert(w) \/ Settle(w) \/ GiveBack(w) \/ Record(w) \/ Release(w)
             \/ Crash(w) \/ (\E i \in scenario.roots : Claim(w, i))
      PROVE  UNCHANGED groupVars
  BY <1>5 DEF ReadClaim, ReadFile, Find, Assign, Admit, Extract, Visit, Insert, Settle,
      GiveBack, Record, Release, Crash, Claim
<1>6. ASSUME Reconcile \/ (\E i \in Roots : LeaseExpires(i))
             \/ (\E s \in BatchStatus : ControlBatch(s))
      PROVE  UNCHANGED groupVars
  BY <1>6 DEF Reconcile, ReportAttempted, ReportTerminal, ReportSuccessful, Decide,
      LeaseExpires, ControlBatch
<1>7. CASE UNCHANGED vars
  BY <1>4, <1>7 DEF vars
<1>. QED
  BY <1>1, <1>2, <1>3, <1>4, <1>5, <1>6, <1>7 DEF Next, WorkerStep

\* The batch row, the ledger and the counts of a report.
LEMMA BatchTypes == TypeInv /\ [Next]_vars => BatchTypeOK'
<1>. SUFFICES ASSUME TypeInv, [Next]_vars PROVE BatchTypeOK'
  OBVIOUS
<1>. USE DEF BatchTypeOK, batchVars, reportVars
<1>0. BatchTypeOK /\ WorkerTypeOK /\ LocalsOK /\ scenario \in Scenarios
  BY DEF TypeInv, TypeOK
<1>1. ASSUME NEW w \in Workers, Admit(w) \/ Settle(w) \/ GiveBack(w) PROVE BatchTypeOK'
  <2>1. inst[w] \in Archives /\ held[w] \in Nat
    BY <1>0, <1>1 DEF LocalsOK, LocalOK, WorkerTypeOK, Admit, Settle, GiveBack
  <2>2. Declared[inst[w]] \in Nat /\ Actual[inst[w]] \in Nat
    BY <2>1, SizesAssumption
  <2>. QED
    BY <1>0, <1>1, <2>1, <2>2 DEF Admit, Settle, GiveBack, SettledTotal
<1>2. ASSUME NEW S \in SUBSET scenario.roots PROVE Cardinality(S) \in Nat
  BY <1>0, RowsAssumption, ScopeAssumption, FS_Subset, FS_CardinalityType
<1>3. CASE ReportAttempted
  <2>1. attempted' \in Nat
    BY <1>2, <1>3 DEF ReportAttempted, RootsThat
  <2>. QED
    BY <1>0, <1>3, <2>1 DEF ReportAttempted, ReportSteps
<1>4. CASE ReportTerminal
  <2>1. terminal' \in Nat
    BY <1>2, <1>4 DEF ReportTerminal
  <2>. QED
    BY <1>0, <1>4, <2>1 DEF ReportTerminal, ReportSteps
<1>5. CASE ReportSuccessful
  <2>1. successful' \in Nat
    BY <1>2, <1>5 DEF ReportSuccessful, RootsThat
  <2>2. Cardinality({i \in scenario.roots \cap CountedAsArchive : TerminalRoot(i)}) \in Nat
    BY <1>2
  <2>. QED
    BY <1>0, <1>5, <2>1, <2>2 DEF ReportSuccessful, ReportSteps
<1>6. CASE Decide
  BY <1>0, <1>6 DEF Decide, ReportSteps, BatchStatus
<1>7. ASSUME NEW s \in BatchStatus, ControlBatch(s) PROVE BatchTypeOK'
  BY <1>0, <1>7 DEF ControlBatch
<1>8. CASE UNCHANGED <<batchVars, reportVars>>
  BY <1>0, <1>8
<1>9. ASSUME NEW w \in Workers,
             ReadClaim(w) \/ ReadFile(w) \/ Find(w) \/ Create(w) \/ BeginWrite(w) \/
             WriteContent(w) \/ Assign(w)
             \/ Extract(w) \/ Visit(w) \/ Insert(w) \/ Record(w) \/ Release(w) \/ Crash(w)
             \/ (\E i \in scenario.roots : Claim(w, i))
      PROVE  UNCHANGED <<batchVars, reportVars>>
  BY <1>9 DEF ReadClaim, ReadFile, Find, Create, BeginWrite, WriteContent, CannotWrite, Assign,
     Extract, Visit,
      Insert, Record, Release, Crash, Claim
<1>10. ASSUME (\E i \in Roots : LeaseExpires(i))
              \/ (\E g \in Groups : AttemptGroup(g) \/ SettleGroup(g))
       PROVE  UNCHANGED <<batchVars, reportVars>>
  BY <1>10 DEF LeaseExpires, AttemptGroup, SettleGroup
<1>11. CASE UNCHANGED vars
  BY <1>8, <1>11 DEF vars
<1>. QED
  BY <1>1, <1>3, <1>4, <1>5, <1>6, <1>7, <1>8, <1>9, <1>10, <1>11 DEF Next, WorkerStep,
      Reconcile

\* A worker moves only by a step of its own.
OtherSteps ==
    \/ Reconcile
    \/ \E i \in Roots : LeaseExpires(i)
    \/ \E g \in Groups : AttemptGroup(g) \/ SettleGroup(g)
    \/ \E s \in BatchStatus : ControlBatch(s)

\* The reconciler, the leases, the pipeline and the operators move no worker.
LEMMA OthersKeepWorkers == OtherSteps \/ UNCHANGED vars => UNCHANGED <<pc, localVars, crashes>>
BY DEF OtherSteps, Reconcile, ReportAttempted, ReportTerminal, ReportSuccessful, Decide,
   LeaseExpires, AttemptGroup, SettleGroup, ControlBatch, vars, localVars

\* The locals of a worker.
LEMMA WorkerTypes == TypeInv /\ [Next]_vars => WorkerTypeOK'
<1>. SUFFICES ASSUME TypeInv, [Next]_vars PROVE WorkerTypeOK'
  OBVIOUS
<1>. USE RowsAssumption DEF WorkerTypeOK, localVars, Goto, Finish, FailArchive, Steps
<1>0. WorkerTypeOK /\ RowTypeOK /\ LocalsOK /\ scenario \in Scenarios
  BY DEF TypeInv, TypeOK
<1>1. ASSUME NEW w \in Workers, NEW i \in scenario.roots, Claim(w, i) PROVE WorkerTypeOK'
  <2>1. i \in Roots
    BY <1>0, ScopeAssumption
  <2>. QED
    BY <1>0, <1>1, <2>1 DEF Claim
<1>2. ASSUME NEW w \in Workers, ReadClaim(w) PROVE WorkerTypeOK'
  <2>1. claimGeneration[inst[w]] \in Nat
    BY <1>0, <1>2 DEF RowTypeOK, LocalsOK, LocalOK, ReadClaim
  <2>. QED
    BY <1>0, <1>2, <2>1 DEF ReadClaim
<1>3. ASSUME NEW w \in Workers, ReadFile(w) PROVE WorkerTypeOK'
  <2>1. Item(w) \in Items
    BY <1>3, ItemType DEF ReadFile, Looking
  <2>2. HasRead(w) => read' \in [Workers -> Groups \cup {None}]
    BY <2>1, ReadType
  <2>. QED
    BY <1>0, <1>3, <2>2 DEF ReadFile, Outcomes
<1>4. ASSUME NEW w \in Workers, Find(w) PROVE WorkerTypeOK'
  <2>1. Item(w) \in Items
    BY <1>4, ItemType DEF Find, Looking
  <2>2. HasRead(w) => read' \in [Workers -> Groups \cup {None}]
    BY <2>1, ReadType
  <2>. QED
    BY <1>0, <1>4, <2>2 DEF Find, Outcomes, AfterGroup
<1>5. ASSUME NEW w \in Workers, Create(w) \/ BeginWrite(w) \/ WriteContent(w) \/ Assign(w)
      PROVE WorkerTypeOK'
  BY <1>0, <1>5 DEF Create, BeginWrite, WriteContent, CannotWrite, Assign, AfterGroup, Outcomes
<1>6. ASSUME NEW w \in Workers, Admit(w) PROVE WorkerTypeOK'
  <2>1. Declared[inst[w]] \in Nat
    BY <1>0, <1>6, SizesAssumption DEF LocalsOK, LocalOK, Admit
  <2>. QED
    BY <1>0, <1>6, <2>1 DEF Admit
<1>7. ASSUME NEW w \in Workers, Extract(w) PROVE WorkerTypeOK'
  BY <1>0, <1>7 DEF Extract, Outcomes
<1>8. ASSUME NEW w \in Workers, Visit(w) PROVE WorkerTypeOK'
  <2>1. /\ at' \in {at, [at EXCEPT ![w] = @ + 1]}
        /\ \E s \in Steps : pc' \in {pc, [pc EXCEPT ![w] = s]}
        /\ \E o \in Outcomes : result' \in {result, [result EXCEPT ![w] = o]}
        /\ UNCHANGED <<inst, gen, read, held, crashes>>
    BY <1>8 DEF Visit, Enter, Outcomes
  <2>. QED
    BY <1>0, <2>1
<1>9. ASSUME NEW w \in Workers, Insert(w) PROVE WorkerTypeOK'
  BY <1>0, <1>9 DEF Insert, Enter, Outcomes
<1>10. ASSUME NEW w \in Workers, Settle(w) \/ GiveBack(w) PROVE WorkerTypeOK'
  BY <1>0, <1>10 DEF Settle, GiveBack, Outcomes
<1>11. ASSUME NEW w \in Workers, Record(w) \/ Release(w) \/ Crash(w) PROVE WorkerTypeOK'
  BY <1>0, <1>11 DEF Record, Release, Crash
<1>12. CASE OtherSteps \/ UNCHANGED vars
  BY <1>0, <1>12, OthersKeepWorkers
<1>. QED
  BY <1>1, <1>2, <1>3, <1>4, <1>5, <1>6, <1>7, <1>8, <1>9, <1>10, <1>11, <1>12
     DEF Next, WorkerStep, OtherSteps

\* A step of one worker leaves the locals of the others alone.
MyStep(w) == WorkerStep(w) \/ Crash(w) \/ \E i \in scenario.roots : Claim(w, i)

Same(v) ==
    /\ pc'[v] = pc[v] /\ inst'[v] = inst[v] /\ gen'[v] = gen[v] /\ at'[v] = at[v]
    /\ read'[v] = read[v] /\ held'[v] = held[v] /\ result'[v] = result[v]

\* A worker's step leaves the other workers' locals alone.
LEMMA OnlyMine ==
    ASSUME TypeInv, NEW w \in Workers, MyStep(w), NEW v \in Workers \ {w}
    PROVE  Same(v)
<1>. USE DEF Same, localVars, Goto, Finish, FailArchive
<1>0. WorkerTypeOK
  BY DEF TypeInv, TypeOK
<1>1. CASE ReadFile(w) \/ Find(w)
  <2>1. Item(w) \in Items
    BY <1>1, ItemType DEF ReadFile, Find, Looking
  <2>2. HasRead(w) => read'[v] = read[v]
    BY <2>1, ReadType
  <2>. QED
    BY <1>0, <1>1, <2>2 DEF WorkerTypeOK, ReadFile, Find
<1>2. CASE Visit(w) \/ Insert(w)
  BY <1>0, <1>2 DEF WorkerTypeOK, Visit, Insert, Enter
<1>3. CASE ReadClaim(w) \/ Create(w) \/ BeginWrite(w) \/ WriteContent(w) \/ Assign(w) \/ Record(w)
  BY <1>0, <1>3 DEF WorkerTypeOK, ReadClaim, Create, BeginWrite, WriteContent, CannotWrite,
     Assign, Record
<1>4. CASE Admit(w) \/ Extract(w) \/ Settle(w) \/ GiveBack(w)
  BY <1>0, <1>4 DEF WorkerTypeOK, Admit, Extract, Settle, GiveBack
<1>5. CASE Release(w) \/ Crash(w) \/ \E i \in scenario.roots : Claim(w, i)
  BY <1>0, <1>5 DEF WorkerTypeOK, Release, Crash, Claim
<1>. QED
  BY <1>1, <1>2, <1>3, <1>4, <1>5 DEF MyStep, WorkerStep

\* An invocation that is over has no locals.
LEMMA Finished ==
    ASSUME WorkerTypeOK, NEW w \in Workers, Finish(w)
    PROVE  /\ pc'[w] = "idle" /\ inst'[w] = None /\ gen'[w] = Unloaded /\ at'[w] = 0
           /\ read'[w] = None /\ held'[w] = 0 /\ result'[w] = None
           /\ LocalOK(w)'
<1>1. /\ pc'[w] = "idle" /\ inst'[w] = None /\ gen'[w] = Unloaded /\ at'[w] = 0
      /\ read'[w] = None /\ held'[w] = 0 /\ result'[w] = None
  BY DEF WorkerTypeOK, Finish, Goto
<1>. QED
  BY <1>1 DEF LocalOK, Looking

\* A step of a worker leaves its locals in order.
LEMMA MineOK ==
    ASSUME TypeInv, NEW w \in Workers, MyStep(w), UNCHANGED scenario
    PROVE  LocalOK(w)'
<1>. USE DEF Goto, FailArchive
<1>0. WorkerTypeOK /\ LocalOK(w) /\ scenario.roots \subseteq Roots
  BY ScopeAssumption DEF TypeInv, TypeOK, LocalsOK
<1>1. ASSUME NEW i \in scenario.roots, Claim(w, i) PROVE LocalOK(w)'
  BY <1>0, <1>1, RowsAssumption DEF WorkerTypeOK, LocalOK, Looking, Claim
<1>2. CASE ReadClaim(w)
  BY <1>0, <1>2 DEF WorkerTypeOK, LocalOK, Looking, ReadClaim, Roots
<1>3. CASE ReadFile(w)
  <2>1. Item(w) \in Items
    BY <1>3, ItemType DEF ReadFile, Looking
  <2>2. HasRead(w) => read'[w] \in Groups
    BY <2>1, ReadType
  <2>. QED
    BY <1>0, <1>3, <2>2, RowsAssumption DEF WorkerTypeOK, LocalOK, Looking, ReadFile,
        Outcomes
<1>4. CASE Find(w)
  <2>1. Item(w) \in Items /\ inst[w] \in Roots
    BY <1>4, ItemType DEF Find, Looking
  <2>2. HasRead(w) => read'[w] \in Groups
    BY <2>1, ReadType
  <2>. QED
    BY <1>0, <1>4, <2>1, <2>2, RowsAssumption
       DEF WorkerTypeOK, LocalOK, Looking, Find, Outcomes, Roots, AfterGroup
<1>5. CASE Create(w)
  BY <1>0, <1>5 DEF WorkerTypeOK, LocalOK, Looking, Create, AfterGroup
<1>5w. CASE BeginWrite(w) \/ WriteContent(w)
  <2>1. /\ UNCHANGED <<inst, at, read>>
        /\ pc[w] \in Looking \ {"find"}
        /\ \/ Goto(w, "writing") /\ UNCHANGED result
           \/ Goto(w, "assign") /\ UNCHANGED result
           \/ Goto(w, "release") /\ UNCHANGED result
           \/ inst[w] \notin Files /\ FailArchive(w, "RETRYABLE")
    BY <1>5w DEF BeginWrite, WriteContent, CannotWrite, Looking
  <2>2. inst[w] \in Roots
    BY <2>1, ItemType DEF Looking
  <2>. QED
    BY <1>0, <2>1, <2>2 DEF WorkerTypeOK, LocalOK, Looking, Outcomes, Roots
<1>6. CASE Assign(w)
  <2>1. inst[w] \in Roots /\ (inst[w] \in Archives => at[w] \in DOMAIN Walk[inst[w]])
    BY <1>0, <1>6, ItemType DEF LocalOK, Assign, Looking
  <2>2. inst[w] \in Archives => at[w] >= 1
    BY <2>1, WalkAssumption
  <2>. QED
    BY <1>0, <1>6, <2>1, <2>2 DEF WorkerTypeOK, LocalOK, Looking, Assign, Outcomes, Roots
<1>7. CASE Admit(w) \/ Extract(w)
  BY <1>0, <1>7 DEF WorkerTypeOK, LocalOK, Looking, Admit, Extract, Outcomes
<1>8. ASSUME NEW m, Enter(w, m), pc[w] \in {"visit", "insert"}, UNCHANGED inst,
             at[w] \in DOMAIN Walk[inst[w]]
      PROVE  LocalOK(w)'
  <2>1. at[w] >= 1 /\ inst[w] \in Archives
    BY <1>0, <1>8, WalkAssumption DEF LocalOK
  <2>. QED
    BY <1>0, <1>8, <2>1, RowsAssumption DEF WorkerTypeOK, LocalOK, Looking, Enter, Outcomes
<1>9. CASE Visit(w)
  <2>1. pc[w] = "visit" /\ inst[w] \in Archives /\ at[w] \in Nat /\ at[w] >= 1
    BY <1>0, <1>9 DEF LocalOK, Visit, WorkerTypeOK
  <2>2. at[w] <= Len(Walk[inst[w]]) => at[w] \in DOMAIN Walk[inst[w]]
    BY <2>1, WalkAssumption
  <2>3. CASE Enter(w, Walk[inst[w]][at[w]]) /\ at[w] <= Len(Walk[inst[w]])
    BY <1>8, <1>9, <2>2, <2>3 DEF Visit
  <2>4. CASE /\ at' \in {at, [at EXCEPT ![w] = @ + 1]}
             /\ UNCHANGED <<pc, inst, result, read>>
    BY <1>0, <1>9, <2>1, <2>4 DEF WorkerTypeOK, LocalOK, Looking, Visit
  <2>5. CASE Goto(w, "settle") /\ UNCHANGED <<at, inst, result, read>>
    BY <1>0, <2>1, <2>5 DEF WorkerTypeOK, LocalOK, Looking
  <2>6. CASE Goto(w, "insert") /\ at[w] <= Len(Walk[inst[w]]) /\ UNCHANGED <<at, inst, result, read>>
    BY <1>0, <2>1, <2>2, <2>6 DEF WorkerTypeOK, LocalOK, Looking
  <2>. QED
    BY <1>9, <2>3, <2>4, <2>5, <2>6 DEF Visit
<1>10. CASE Insert(w)
  <2>1. inst[w] \in Archives /\ at[w] \in DOMAIN Walk[inst[w]]
    BY <1>0, <1>10 DEF LocalOK, Insert
  <2>. QED
    BY <1>0, <1>8, <1>10, <2>1, Finished DEF Insert
<1>11. CASE Settle(w) \/ GiveBack(w)
  BY <1>0, <1>11, Finished DEF WorkerTypeOK, LocalOK, Looking, Settle, GiveBack, Outcomes
<1>12. CASE Record(w) \/ Release(w) \/ Crash(w)
  BY <1>0, <1>12, Finished DEF WorkerTypeOK, LocalOK, Looking, Record, Release, Crash,
      localVars
<1>. QED
  BY <1>1, <1>2, <1>3, <1>4, <1>5, <1>5w, <1>6, <1>7, <1>9, <1>10, <1>11, <1>12 DEF MyStep,
      WorkerStep

\* The locals of every worker are in order after every step.
LEMMA Locals == TypeInv /\ [Next]_vars => LocalsOK'
<1>. SUFFICES ASSUME TypeInv, [Next]_vars, NEW v \in Workers PROVE LocalOK(v)'
  BY DEF LocalsOK
<1>0. LocalOK(v) /\ UNCHANGED scenario
  BY DEF TypeInv, LocalsOK, Next, vars
<1>1. CASE Same(v)
  BY <1>0, <1>1 DEF LocalOK, Same
<1>2. ASSUME NEW w \in Workers, MyStep(w) PROVE LocalOK(v)'
  BY <1>0, <1>1, <1>2, OnlyMine, MineOK
<1>3. CASE OtherSteps \/ UNCHANGED vars
  BY <1>1, <1>3, OthersKeepWorkers DEF Same, localVars
<1>. QED
  BY <1>2, <1>3 DEF Next, MyStep, OtherSteps

\* TypeInv holds in every reachable state.
LEMMA TypeStep == TypeInv /\ [Next]_vars => TypeInv'
BY RowTypes, GroupTypes, BatchTypes, WorkerTypes, Locals DEF TypeInv, TypeOK, Next, vars

\* TypeOK of SourceIngestion: every column and every local has its type.
THEOREM TypeCorrect == Spec => []TypeOK
<1>1. TypeInv => TypeOK
  BY DEF TypeInv
<1>. QED
  BY <1>1, TypeInit, TypeStep, PTL DEF Spec
-----------------------------------------------------------------------------
(* Claims                                                                  *)

\* A worker that has an archive has a generation of its own, never a later one
\* than the row's.
Generations ==
    \A w \in Workers :
        IF inst[w] = None THEN gen[w] = Unloaded
        ELSE /\ gen[w] <= claimGeneration[inst[w]]
             /\ pc[w] # "claimed" /\ inst[w] \in Archives => gen[w] # Unloaded

\* Unless a worker can be overtaken before it has read its generation, it holds
\* its archive until then, and later it holds it or nobody does if its
\* generation is still the row's.
ArchiveClaims ==
    "claimed" \notin scenario.stalls =>
        \A w \in Workers : inst[w] \in Archives =>
            /\ pc[w] = "claimed" => claimedBy[inst[w]] = w /\ inst[w] \notin expired
            /\ gen[w] = claimGeneration[inst[w]] => claimedBy[inst[w]] \in {w, None}

\* Where nobody outlasts a lease every worker holds the row it is at.
Alone ==
    scenario.stalls = {} =>
        \A w \in Workers : inst[w] # None => claimedBy[inst[w]] = w /\ inst[w] \notin expired

ClaimInv == TypeInv /\ Generations /\ ArchiveClaims /\ Alone

\* What a step does to the claims: it grants one, gives one up, lets one expire
\* or leaves them.
ClaimStep ==
    \/ \E w \in Workers, i \in scenario.roots : Claim(w, i)
    \/ \E w \in Workers : Release(w)
    \/ \E i \in Roots : LeaseExpires(i) /\ UNCHANGED <<pc, localVars>>
    \/ UNCHANGED claimVars /\ \E w \in Workers : MyStep(w)
    \/ UNCHANGED <<claimVars, pc, localVars>>

\* Every step is one of these.
LEMMA ClaimSteps == [Next]_vars => ClaimStep
<1>1. ASSUME NEW w \in Workers,
             ReadClaim(w) \/ ReadFile(w) \/ Find(w) \/ Create(w) \/ BeginWrite(w) \/
             WriteContent(w) \/ Assign(w)
             \/ Admit(w) \/ Extract(w) \/ Visit(w) \/ Insert(w) \/ Settle(w) \/ GiveBack(w)
             \/ Record(w) \/ Crash(w)
      PROVE  UNCHANGED claimVars
  BY <1>1 DEF ReadClaim, ReadFile, Find, Create, BeginWrite, WriteContent, CannotWrite, Assign,
     Admit, Extract,
      Visit, Insert, Settle, GiveBack, Record, Crash
<1>2. ASSUME Reconcile \/ (\E g \in Groups : AttemptGroup(g) \/ SettleGroup(g))
             \/ (\E s \in BatchStatus : ControlBatch(s))
      PROVE  UNCHANGED <<claimVars, pc, localVars>>
  BY <1>2 DEF Reconcile, ReportAttempted, ReportTerminal, ReportSuccessful, Decide,
      AttemptGroup, SettleGroup, ControlBatch
<1>3. ASSUME NEW i \in Roots, LeaseExpires(i) PROVE UNCHANGED <<pc, localVars>>
  BY <1>3 DEF LeaseExpires
<1>4. UNCHANGED vars => UNCHANGED <<claimVars, pc, localVars>>
  BY DEF vars
<1>. QED
  BY <1>1, <1>2, <1>3, <1>4 DEF Next, ClaimStep, MyStep, WorkerStep

\* Generations only grow.
LEMMA GenerationsGrow ==
    ASSUME TypeInv, ClaimStep, NEW i \in Roots
    PROVE  claimGeneration'[i] >= claimGeneration[i]
<1>. USE DEF TypeInv, TypeOK, RowTypeOK
<1>1. ASSUME NEW w \in Workers, NEW j \in scenario.roots, Claim(w, j)
      PROVE  claimGeneration'[i] >= claimGeneration[i]
  BY <1>1 DEF Claim
<1>2. CASE UNCHANGED claimGeneration
  BY <1>2
<1>. QED
  BY <1>1, <1>2 DEF ClaimStep, claimVars, Release, LeaseExpires

\* A worker's generation follows its row's.
LEMMA GenerationsStep == TypeInv /\ Generations /\ [Next]_vars => Generations'
<1>. DEFINE Good(v) == IF inst[v] = None THEN gen[v] = Unloaded
                       ELSE /\ gen[v] <= claimGeneration[inst[v]]
                            /\ pc[v] # "claimed" /\ inst[v] \in Archives => gen[v] # Unloaded
<1>. SUFFICES ASSUME TypeInv, Generations, [Next]_vars, NEW v \in Workers PROVE Good(v)'
  BY DEF Generations
<1>0. /\ WorkerTypeOK /\ RowTypeOK /\ LocalOK(v) /\ Good(v)
      /\ \A i \in Roots : claimGeneration'[i] >= claimGeneration[i]
      /\ claimGeneration' \in [Roots -> Nat]
  BY ClaimSteps, GenerationsGrow, TypeStep
     DEF TypeInv, TypeOK, LocalsOK, RowTypeOK, Generations
<1>. DEFINE now == claimGeneration[inst[v]]
            later == claimGeneration'[inst[v]]
<1>a. gen[v] \in Int /\ (inst[v] # None => now \in Int /\ later \in Int /\ now <= later)
  BY <1>0 DEF WorkerTypeOK, RowTypeOK, Unloaded
<1>b. CASE gen'[v] = gen[v] /\ inst'[v] = inst[v] /\ (pc[v] = "claimed" => pc'[v] = "claimed")
  BY <1>0, <1>a, <1>b
<1>1. CASE Same(v)
  BY <1>b, <1>1 DEF Same
<1>2. CASE MyStep(v)
  <2>. USE RowsAssumption DEF Goto, FailArchive, WorkerTypeOK, RowTypeOK
  <2>1. ASSUME NEW i \in scenario.roots, Claim(v, i) PROVE Good(v)'
    <3>1. i \in Roots
      BY ScopeAssumption DEF TypeInv, TypeOK
    <3>. QED
      BY <1>0, <2>1, <3>1 DEF Claim, LocalOK, Unloaded
  <2>2. CASE ReadClaim(v)
    BY <1>0, <2>2 DEF ReadClaim, LocalOK, Unloaded
  <2>3. CASE Finish(v)
    BY <1>0, <2>3, Finished
  <2>4. CASE Create(v)
    BY <1>0, <2>4 DEF Create, Unloaded
  <2>5. CASE UNCHANGED <<gen, inst>> /\ pc[v] # "claimed"
    BY <1>b, <2>5
  <2>6. ASSUME ReadFile(v) \/ Find(v) \/ BeginWrite(v) \/ WriteContent(v) \/ Assign(v) \/
               Admit(v) \/ Extract(v)
               \/ Visit(v) \/ GiveBack(v) \/ Record(v)
        PROVE  UNCHANGED <<gen, inst>> /\ pc[v] # "claimed"
    BY <2>6 DEF ReadFile, Find, BeginWrite, WriteContent, CannotWrite, Assign, Admit, Extract,
       Visit, GiveBack,
        Record, localVars
  <2>7. ASSUME Settle(v) \/ Insert(v) \/ Release(v) \/ Crash(v)
        PROVE  Finish(v) \/ (UNCHANGED <<gen, inst>> /\ pc[v] # "claimed")
    BY <2>7 DEF Settle, Insert, Release, Crash
  <2>. QED
    BY <1>2, <2>1, <2>2, <2>3, <2>4, <2>5, <2>6, <2>7 DEF MyStep, WorkerStep
<1>. QED
  BY <1>1, <1>2, OnlyMine, OthersKeepWorkers DEF Next, MyStep, OtherSteps, Same, localVars

\* The two statements about who holds a row follow the same steps.
LEMMA ClaimsStep ==
    ClaimInv /\ [Next]_vars => ArchiveClaims' /\ Alone'
<1>. DEFINE Good(v) ==
                "claimed" \notin scenario.stalls /\ inst[v] \in Archives =>
                    /\ pc[v] = "claimed" => claimedBy[inst[v]] = v /\ inst[v] \notin expired
                    /\ gen[v] = claimGeneration[inst[v]] => claimedBy[inst[v]] \in {v, None}
            Mine(v) == scenario.stalls = {} /\ inst[v] # None
                       => claimedBy[inst[v]] = v /\ inst[v] \notin expired
<1>. SUFFICES ASSUME ClaimInv, [Next]_vars, NEW v \in Workers PROVE Good(v)' /\ Mine(v)'
  BY DEF ArchiveClaims, Alone
<1>0. /\ WorkerTypeOK /\ RowTypeOK /\ LocalsOK
      /\ \A w \in Workers : Good(w) /\ Mine(w) /\ inst[w] \in Roots \cup {None}
      /\ UNCHANGED scenario
      /\ scenario.roots \subseteq Roots
      /\ None \notin Roots
      /\ Generations
  BY RowsAssumption, ScopeAssumption
     DEF ClaimInv, TypeInv, TypeOK, WorkerTypeOK, ArchiveClaims, Alone, Next, vars
<1>. HIDE DEF Good, Mine
<1>1. ASSUME NEW w \in Workers, NEW i \in scenario.roots, Claim(w, i) PROVE Good(v)' /\ Mine(v)'
  <2>1. /\ i \in Roots /\ Claimable(i) /\ pc[w] = "idle" /\ inst[w] = None
        /\ claimedBy' = [claimedBy EXCEPT ![i] = w] /\ expired' = expired \ {i}
        /\ claimGeneration' = [claimGeneration EXCEPT ![i] = @ + 1]
        /\ inst' = [inst EXCEPT ![w] = i] /\ pc' = [pc EXCEPT ![w] = "claimed"] /\ gen' = gen
    BY <1>0, <1>1 DEF Claim, Goto, LocalsOK, LocalOK
  <2>2. CASE v = w
    BY <1>0, <2>1, <2>2 DEF Good, Mine, WorkerTypeOK, RowTypeOK
  <2>3. CASE v # w /\ inst[v] # i
    BY <1>0, <2>1, <2>3 DEF Good, Mine, WorkerTypeOK, RowTypeOK
  <2>4. CASE v # w /\ inst[v] = i
    <3>1. pc'[v] = pc[v] /\ inst'[v] = i /\ gen'[v] = gen[v] /\ inst[v] # None
      BY <1>0, <2>1, <2>4 DEF WorkerTypeOK
    <3>2. claimedBy[i] = None \/ i \in expired
      BY <2>1 DEF Claimable
    <3>3. scenario.stalls # {}
      BY <1>0, <2>4, <3>1, <3>2, RowsAssumption DEF Mine
    <3>4. gen[v] # claimGeneration'[i]
      BY <1>0, <2>1, <2>4, <3>1 DEF Generations, WorkerTypeOK, RowTypeOK, Unloaded
    <3>5. "claimed" \notin scenario.stalls /\ i \in Archives => pc[v] # "claimed"
      BY <1>0, <2>4, <3>2, RowsAssumption DEF Good
    <3>. QED
      BY <1>0, <3>1, <3>3, <3>4, <3>5 DEF Good, Mine
  <2>. QED
    BY <2>2, <2>3, <2>4
<1>2. ASSUME NEW i \in Roots, LeaseExpires(i), UNCHANGED <<pc, localVars>>
      PROVE  Good(v)' /\ Mine(v)'
  <2>1. /\ claimedBy[i] # None /\ i \notin expired /\ expired' = expired \cup {i}
        /\ inst[claimedBy[i]] = i => pc[claimedBy[i]] \in scenario.stalls
        /\ UNCHANGED <<claimedBy, claimGeneration, pc, inst, gen>>
    BY <1>2 DEF LeaseExpires, localVars
  <2>2. CASE inst[v] # i
    BY <1>0, <2>1, <2>2 DEF Good, Mine
  <2>3. CASE inst[v] = i /\ claimedBy[i] = v
    BY <1>0, <2>1, <2>3 DEF Good, Mine
  <2>4. CASE inst[v] = i /\ claimedBy[i] # v
    BY <1>0, <2>1, <2>4 DEF Good, Mine
  <2>. QED
    BY <2>2, <2>3, <2>4
<1>3. ASSUME NEW w \in Workers, Release(w) PROVE Good(v)' /\ Mine(v)'
  <2>. DEFINE i == inst[w]
  <2>1. i \in Roots /\ pc[w] = "release" /\ Finish(w) /\ UNCHANGED claimGeneration
    BY <1>0, <1>3 DEF Release, LocalsOK, LocalOK
  <2>2. CASE v = w
    BY <1>0, <2>1, <2>2, Finished DEF Good, Mine, Roots
  <2>3. CASE v # w
    <3>1. Same(v)
      BY <1>3, <2>3, OnlyMine DEF ClaimInv, MyStep, WorkerStep
    <3>2. CASE UNCHANGED <<claimedBy, expired>>
      BY <1>0, <2>1, <3>1, <3>2 DEF Good, Mine, Same
    <3>3. CASE /\ Fenced(w) /\ claimedBy' = [claimedBy EXCEPT ![i] = None]
               /\ expired' = expired \ {i}
      <4>1. CASE inst[v] # i
        BY <1>0, <2>1, <3>1, <3>3, <4>1 DEF Good, Mine, Same, RowTypeOK
      <4>2. CASE inst[v] = i
        <5>1. scenario.stalls # {}
          BY <1>0, <2>1, <2>3, <4>2 DEF Mine
        <5>2. "claimed" \notin scenario.stalls /\ i \in Archives => pc[v] # "claimed"
          <6>1. i \in Archives => gen[w] # Unloaded /\ gen[w] = claimGeneration[i]
            BY <1>0, <2>1, <3>3 DEF Generations, Fenced, MyGeneration
          <6>. QED
            BY <1>0, <2>1, <2>3, <4>2, <6>1, RowsAssumption DEF Good
        <5>3. claimedBy'[i] = None
          BY <1>0, <2>1, <3>3 DEF RowTypeOK
        <5>. QED
          BY <1>0, <3>1, <4>2, <5>1, <5>2, <5>3 DEF Good, Mine, Same
      <4>. QED
        BY <4>1, <4>2
    <3>. QED
      BY <1>3, <3>2, <3>3 DEF Release
  <2>. QED
    BY <2>2, <2>3
<1>4. ASSUME UNCHANGED claimVars, NEW w \in Workers, MyStep(w) PROVE Good(v)' /\ Mine(v)'
  <2>1. CASE Same(v)
    BY <1>0, <1>4, <2>1 DEF Good, Mine, Same, claimVars
  <2>2. CASE v = w
    <3>. USE <2>2 DEF Goto, FailArchive, WorkerTypeOK
    <3>1. CASE \E i \in scenario.roots : Claim(w, i)
      BY <1>1, <3>1
    <3>2. CASE ReadClaim(w)
      BY <1>0, <1>4, <3>2 DEF ReadClaim, Good, Mine, claimVars
    <3>3. CASE Finish(w)
      BY <1>0, <3>3, Finished DEF Good, Mine, Roots
    <3>4. CASE Create(w)
      <4>1. /\ inst' = inst /\ pc'[w] # "claimed"
            /\ inst[w] \in Archives => gen' = gen
        BY <1>0, <3>4, RowsAssumption DEF Create, AfterGroup
      <4>. QED
        BY <1>0, <1>4, <4>1 DEF Good, Mine, claimVars
    <3>5. CASE UNCHANGED <<gen, inst>> /\ pc'[w] # "claimed"
      BY <1>0, <1>4, <3>5 DEF Good, Mine, claimVars
    <3>6. ASSUME ReadFile(w) \/ Find(w) \/ BeginWrite(w) \/ WriteContent(w) \/ Assign(w) \/
                 Admit(w)
                 \/ Extract(w) \/ GiveBack(w) \/ Record(w)
          PROVE  UNCHANGED <<gen, inst>> /\ pc'[w] # "claimed"
      BY <1>0, <3>6 DEF ReadFile, Find, BeginWrite, WriteContent, CannotWrite, Assign, Admit,
         Extract, GiveBack,
         Record, localVars, AfterGroup
    <3>7. ASSUME Settle(w) \/ Insert(w) \/ Release(w) \/ Crash(w) \/ Visit(w)
          PROVE  Finish(w) \/ (UNCHANGED <<gen, inst>> /\ pc'[w] # "claimed")
      BY <1>0, <3>7 DEF Settle, Insert, Release, Crash, Visit, Enter
    <3>. QED
      BY <1>4, <3>1, <3>2, <3>3, <3>4, <3>5, <3>6, <3>7 DEF MyStep, WorkerStep
  <2>. QED
    BY <1>4, <2>1, <2>2, OnlyMine DEF ClaimInv
<1>5. CASE UNCHANGED <<claimVars, pc, localVars>>
  BY <1>0, <1>5 DEF Good, Mine, claimVars, localVars
<1>. QED
  BY <1>1, <1>2, <1>3, <1>4, <1>5, ClaimSteps DEF ClaimStep

\* ClaimInv holds in every reachable state.
THEOREM ClaimInvariance == Spec => []ClaimInv
<1>1. Init => ClaimInv
  BY TypeInit, RowsAssumption
     DEF Init, ClaimInv, Generations, ArchiveClaims, Alone, Unloaded, Roots
<1>2. ClaimInv /\ [Next]_vars => ClaimInv'
  BY TypeStep, GenerationsStep, ClaimsStep DEF ClaimInv
<1>. QED
  BY <1>1, <1>2, PTL DEF Spec

\* Only an assignment and a new member touch the rows, and an assignment writes
\* where there is no identity.
LEMMA IdentityStep ==
    ASSUME TypeInv, [Next]_vars
    PROVE  /\ \/ UNCHANGED identity
              \/ \E w \in Workers : Assign(w)
           /\ IdentitiesKept
<1>0. identity \in [Roots \cup Members -> Groups \cup {None}]
  BY DEF TypeInv, TypeOK, RowTypeOK
<1>1. ASSUME NEW w \in Workers,
             ReadClaim(w) \/ ReadFile(w) \/ Find(w) \/ Create(w) \/ BeginWrite(w) \/
             WriteContent(w) \/ Admit(w)
             \/ Extract(w) \/ Visit(w) \/ Insert(w) \/ Settle(w) \/ GiveBack(w) \/ Record(w)
             \/ Release(w) \/ Crash(w) \/ \E i \in scenario.roots : Claim(w, i)
      PROVE  UNCHANGED identity
  BY <1>1 DEF ReadClaim, ReadFile, Find, Create, BeginWrite, WriteContent, CannotWrite, Admit,
     Extract, Visit,
      Insert, Settle, GiveBack, Record, Release, Crash, Claim
<1>2. ASSUME OtherSteps \/ UNCHANGED vars PROVE UNCHANGED identity
  BY <1>2 DEF OtherSteps, Reconcile, ReportAttempted, ReportTerminal, ReportSuccessful,
      Decide, LeaseExpires, AttemptGroup, SettleGroup, ControlBatch, vars
<1>3. UNCHANGED identity \/ \E w \in Workers : Assign(w)
  BY <1>1, <1>2 DEF Next, WorkerStep, OtherSteps
<1>4. ASSUME NEW w \in Workers, Assign(w) PROVE IdentitiesKept
  BY <1>0, <1>4 DEF Assign, Unassigned, IdentitiesKept
<1>5. CASE UNCHANGED identity
  BY <1>0, <1>5 DEF IdentitiesKept
<1>. QED
  BY <1>3, <1>4, <1>5

\* A claim ends without another one only where a worker releases it whose
\* generation is the row's: the worker that holds it.
LEMMA ClaimsKeptStep == ClaimInv /\ [Next]_vars => ClaimsKept
<1>. SUFFICES ASSUME ClaimInv, [Next]_vars, NEW i \in Roots,
                     scenario.stalls = {} \/ (i \in Archives /\ "claimed" \notin scenario.stalls),
                     claimedBy[i] # None, claimedBy'[i] = None
              PROVE  inst[claimedBy[i]] = i /\ pc[claimedBy[i]] = "release"
  BY DEF ClaimsKept
<1>0. /\ WorkerTypeOK /\ RowTypeOK /\ LocalsOK /\ None \notin Workers
      /\ Generations /\ ArchiveClaims /\ Alone
  BY RowsAssumption DEF ClaimInv, TypeInv, TypeOK
<1>1. PICK w \in Workers : Release(w)
  <2>1. ASSUME NEW w \in Workers, NEW j \in scenario.roots, Claim(w, j) PROVE FALSE
    BY <1>0, <2>1 DEF Claim, RowTypeOK
  <2>2. ~UNCHANGED claimedBy
    OBVIOUS
  <2>. QED
    BY <2>1, <2>2, ClaimSteps DEF ClaimStep, claimVars, LeaseExpires
<1>2. inst[w] = i /\ Fenced(w) /\ pc[w] = "release"
  BY <1>0, <1>1 DEF Release, RowTypeOK
<1>3. claimedBy[i] = w
  <2>1. CASE scenario.stalls = {}
    BY <1>0, <1>2, <2>1, RowsAssumption DEF Alone, Roots
  <2>2. CASE i \in Archives /\ "claimed" \notin scenario.stalls
    <3>1. gen[w] = claimGeneration[i]
      BY <1>0, <1>2, <2>2, RowsAssumption DEF Generations, Fenced, MyGeneration, Roots
    <3>. QED
      BY <1>0, <1>2, <2>2, <3>1 DEF ArchiveClaims
  <2>. QED
    BY <2>1, <2>2
<1>. QED
  BY <1>2, <1>3

\* NothingTaken: assign_content_identity writes an identity only once, and the
\* fenced release takes a claim from nobody but its holder.
THEOREM ClaimsHold == Spec => NothingTaken
<1>1. ClaimInv /\ [Next]_vars => [IdentitiesKept /\ ClaimsKept]_vars
  BY IdentityStep, ClaimsKeptStep DEF ClaimInv
<1>. QED
  BY <1>1, ClaimInvariance, PTL DEF Spec, NothingTaken
-----------------------------------------------------------------------------
(* Recorded successes                                                      *)

\* A member that the walk has left behind has its row, and a leaf its identity.
Entered(m) == m \in rows /\ (Kind[m] = "leaf" => identity[m] # None)

\* A walk goes from member to member: what lies before its position is entered,
\* and it is settled and recorded as a success only at the end.
WalkInOrder(w) ==
    LET walk == Walk[inst[w]] IN
    /\ pc[w] \in Walking => \A n \in DOMAIN walk : n < at[w] => Entered(walk[n])
    /\ pc[w] \in Looking => walk[at[w]] \in rows
    /\ pc[w] = "settle" => at[w] > Len(walk)
    /\ pc[w] = "record" /\ result[w] = "SUCCEEDED" => \A n \in DOMAIN walk : Entered(walk[n])

WalksInOrder == \A w \in Workers : inst[w] \in Archives => WalkInOrder(w)

\* A file is recorded as a success after its identity is written ...
FilesInOrder ==
    \A w \in Workers : inst[w] \in Files /\ pc[w] = "record" /\ result[w] = "SUCCEEDED"
                       => identity[inst[w]] # None

\* ... and an identity is written after the bytes.
BytesFirst ==
    \A w \in Workers :
        pc[w] = "writing" \/ (pc[w] = "assign" /\ Eligibility[Item(w)] = "ELIGIBLE")
        => Target(w) \in content

FilesThere ==
    \A i \in Items : identity[i] # None /\ Eligibility[i] = "ELIGIBLE"
                     => <<identity[i], Suffix[i]>> \in content

CompleteInv ==
    /\ TypeInv /\ WalksInOrder /\ FilesInOrder /\ BytesFirst
    /\ FilesThere /\ ProcessedIsDone

\* Rows, identities, bytes and attempts only become more.
LEMMA RowsGrow ==
    ASSUME TypeInv, [Next]_vars
    PROVE  rows \subseteq rows' /\ content \subseteq content' /\ attempts \subseteq attempts'
<1>1. ASSUME NEW w \in Workers, MyStep(w)
      PROVE  rows \subseteq rows' /\ content \subseteq content' /\ attempts \subseteq attempts'
  BY <1>1 DEF MyStep, WorkerStep, ReadClaim, ReadFile, Find, Create, BeginWrite, WriteContent,
     CannotWrite,
      Assign, Admit, Extract, Visit, Insert, Settle, GiveBack, Record, Release, Crash,
      Claim, groupVars
<1>2. ASSUME OtherSteps \/ UNCHANGED vars
      PROVE  rows \subseteq rows' /\ content \subseteq content' /\ attempts \subseteq attempts'
  BY <1>2 DEF OtherSteps, Reconcile, ReportAttempted, ReportTerminal, ReportSuccessful,
      Decide, LeaseExpires, AttemptGroup, SettleGroup, ControlBatch, vars, groupVars
<1>. QED
  BY <1>1, <1>2 DEF Next, MyStep, OtherSteps

\* A member that is entered stays entered.
LEMMA EnteredStays ==
    ASSUME TypeInv, [Next]_vars, NEW m \in Members, Entered(m)
    PROVE  Entered(m)'
<1>1. identity[m] # None => identity'[m] = identity[m]
  BY IdentityStep DEF IdentitiesKept
<1>. QED
  BY <1>1, RowsGrow DEF Entered

\* An archive's walk, with its members.
LEMMA WalkType ==
    ASSUME NEW a \in Archives
    PROVE  /\ Len(Walk[a]) \in Nat /\ DOMAIN Walk[a] = 1..Len(Walk[a])
           /\ \A n \in DOMAIN Walk[a] : Walk[a][n] \in Members
BY WalkAssumption

\* The own steps of a worker keep its walk in order.
LEMMA WalkStep ==
    ASSUME CompleteInv, [Next]_vars, NEW w \in Workers, MyStep(w), inst'[w] \in Archives
    PROVE  WalkInOrder(w)'
<1>. USE DEF Goto, FailArchive
<1>0. /\ WorkerTypeOK /\ LocalOK(w) /\ RowTypeOK /\ None \notin Archives /\ TypeInv
      /\ Files \cap Archives = {}
      /\ inst[w] \in Archives => WalkInOrder(w)
  BY RowsAssumption DEF CompleteInv, TypeInv, TypeOK, LocalsOK, WalksInOrder, Roots
<1>1. CASE \E i \in scenario.roots : Claim(w, i)
  BY <1>0, <1>1 DEF Claim, WorkerTypeOK, WalkInOrder, Walking, Looking
<1>2. CASE Finish(w)
  BY <1>0, <1>2, Finished
<1>. SUFFICES ASSUME inst' = inst, WorkerStep(w) PROVE WalkInOrder(w)'
  <2>1. inst' = inst \/ Finish(w) \/ \E i \in scenario.roots : Claim(w, i)
    BY DEF MyStep, WorkerStep, ReadClaim, ReadFile, Find, Create, BeginWrite, WriteContent,
       CannotWrite, Assign,
       Admit, Extract, Visit, Insert, Settle, GiveBack, Record, Release, Crash, localVars
  <2>. QED
    BY <1>1, <1>2, <2>1, SMTT(30) DEF MyStep, Crash
<1>. DEFINE a == inst[w]
            walk == Walk[a]
<1>3. /\ a \in Archives /\ Len(walk) \in Nat /\ DOMAIN walk = 1..Len(walk)
      /\ \A n \in DOMAIN walk : walk[n] \in Members
      /\ \A n \in DOMAIN walk : Entered(walk[n]) => Entered(walk[n])'
      /\ rows \subseteq rows'
      /\ at[w] \in Nat
  BY <1>0, WalkType, EnteredStays, RowsGrow DEF WorkerTypeOK
<1>4. CASE ReadClaim(w) \/ ReadFile(w) \/ Admit(w) \/ GiveBack(w)
  BY <1>0, <1>3, <1>4 DEF ReadClaim, ReadFile, Admit, GiveBack, WorkerTypeOK,
      WalkInOrder, Walking, Looking, LocalOK
<1>5. CASE Extract(w)
  BY <1>0, <1>3, <1>5 DEF Extract, WorkerTypeOK, WalkInOrder, Walking, Looking
<1>6. CASE Find(w) \/ Create(w) \/ BeginWrite(w) \/ WriteContent(w)
  BY <1>0, <1>3, <1>6 DEF Find, Create, BeginWrite, WriteContent, CannotWrite, AfterGroup,
     WorkerTypeOK,
      WalkInOrder, Walking, Looking, localVars
<1>7. CASE Assign(w)
  <2>1. at[w] \in DOMAIN walk /\ read[w] \in Groups /\ walk[at[w]] \in rows
    BY <1>0, <1>3, <1>7 DEF Assign, LocalOK, WalkInOrder, Looking
  <2>2. Item(w) = walk[at[w]]
    BY <1>0, <1>3 DEF Item
  <2>3. CASE Unassigned(Item(w))
    <3>1. PICK m \in Members : m = walk[at[w]]
      BY <1>3, <2>1
    <3>2. identity'[m] # None /\ m \in rows'
      BY <1>0, <1>3, <1>7, <2>1, <2>2, <2>3, <3>1, RowsAssumption DEF Assign, RowTypeOK
    <3>3. Entered(m)'
      BY <3>2 DEF Entered
    <3>. QED
      BY <1>0, <1>3, <1>7, <2>3, <3>1, <3>3 DEF Assign, WorkerTypeOK, WalkInOrder,
          Walking, Looking
  <2>4. CASE ~Unassigned(Item(w))
    BY <1>0, <1>3, <1>7, <2>4 DEF Assign, WorkerTypeOK, WalkInOrder, Walking, Looking
  <2>. QED
    BY <2>3, <2>4
<1>8. ASSUME pc[w] \in {"visit", "insert"}, at[w] \in DOMAIN walk,
             NEW m, m = walk[at[w]], m \in rows', Enter(w, m)
      PROVE  WalkInOrder(w)'
  <2>1. Kind[m] = "archive" => Entered(m)'
    BY <1>8 DEF Entered
  <2>. QED
    BY <1>0, <1>3, <1>8, <2>1, SMTT(30)
       DEF Enter, WorkerTypeOK, WalkInOrder, Walking, Looking
<1>9. CASE Visit(w)
  <2>1. pc[w] = "visit" /\ at[w] >= 1 /\ rows' = rows
    BY <1>0, <1>9 DEF Visit, LocalOK
  <2>2. CASE at[w] > Len(walk)
    BY <1>0, <1>3, <1>9, <2>1, <2>2 DEF Visit, WorkerTypeOK, WalkInOrder, Walking, Looking
  <2>3. CASE at[w] <= Len(walk)
    <3>1. at[w] \in DOMAIN walk
      BY <1>3, <2>1, <2>3
    <3>2. CASE Done(walk[at[w]]) /\ at' = [at EXCEPT ![w] = @ + 1] /\ UNCHANGED <<pc, result>>
      <4>1. Entered(walk[at[w]])
        BY <3>2 DEF Done, Entered
      <4>. QED
        BY <1>0, <1>3, <2>1, <3>1, <3>2, <4>1 DEF WorkerTypeOK, WalkInOrder, Walking,
            Looking
    <3>3. CASE walk[at[w]] \in rows /\ Enter(w, walk[at[w]])
      BY <1>8, <2>1, <3>1, <3>3
    <3>4. CASE Goto(w, "insert") /\ UNCHANGED <<at, result>>
      BY <1>0, <1>3, <2>1, <3>4 DEF WorkerTypeOK, WalkInOrder, Walking, Looking
    <3>. QED
      BY <1>3, <1>9, <2>3, <3>2, <3>3, <3>4 DEF Visit
  <2>. QED
    BY <1>3, <2>1, <2>2, <2>3 DEF WorkerTypeOK
<1>10. CASE Insert(w)
  <2>1. pc[w] = "insert" /\ at[w] \in DOMAIN walk
    BY <1>0, <1>10 DEF Insert, LocalOK
  <2>2. CASE walk[at[w]] \notin rows /\ rows' = rows \cup {walk[at[w]]} /\ Enter(w, walk[at[w]])
    BY <1>8, <2>1, <2>2
  <2>. QED
    BY <1>0, <1>2, <1>10, <2>2 DEF Insert
<1>11. CASE Settle(w)
  <2>1. pc[w] = "settle" /\ at[w] > Len(walk)
    BY <1>0, <1>3, <1>11 DEF Settle, WalkInOrder
  <2>2. \A n \in DOMAIN walk : Entered(walk[n])
    BY <1>0, <1>3, <2>1 DEF WalkInOrder, Walking
  <2>3. CASE Goto(w, "record")
    BY <1>0, <1>3, <2>2, <2>3 DEF WorkerTypeOK, WalkInOrder, Walking, Looking
  <2>. QED
    BY <1>2, <1>11, <2>3 DEF Settle
<1>12. CASE Record(w)
  BY <1>0, <1>3, <1>12 DEF Record, WorkerTypeOK, WalkInOrder, Walking, Looking
<1>13. CASE Release(w)
  BY <1>2, <1>13 DEF Release
<1>. QED
  BY <1>4, <1>5, <1>6, <1>7, <1>9, <1>10, <1>11, <1>12, <1>13 DEF WorkerStep

\* The steps of the others move no walk back.
LEMMA WalksStep == CompleteInv /\ [Next]_vars => WalksInOrder'
<1>. SUFFICES ASSUME CompleteInv, [Next]_vars, NEW v \in Workers, inst'[v] \in Archives
              PROVE  WalkInOrder(v)'
  BY DEF WalksInOrder
<1>0. TypeInv /\ (inst[v] \in Archives => WalkInOrder(v))
  BY DEF CompleteInv, WalksInOrder
<1>1. CASE Same(v)
  <2>1. /\ inst[v] \in Archives /\ rows \subseteq rows'
        /\ \A n \in DOMAIN Walk[inst[v]] : /\ Walk[inst[v]][n] \in Members
                                           /\ inst'[v] = inst[v]
    BY <1>0, <1>1, WalkType, RowsGrow DEF Same
  <2>2. ASSUME NEW n \in DOMAIN Walk[inst[v]], Entered(Walk[inst[v]][n])
        PROVE  Entered(Walk[inst[v]][n])'
    BY <1>0, <2>1, <2>2, EnteredStays DEF Entered
  <2>. QED
    BY <1>0, <1>1, <2>1, <2>2 DEF WalkInOrder, Same
<1>2. ASSUME MyStep(v) PROVE WalkInOrder(v)'
  BY <1>2, WalkStep
<1>3. Same(v) \/ MyStep(v)
  BY <1>0, OnlyMine, OthersKeepWorkers DEF Next, MyStep, OtherSteps, Same, localVars
<1>. QED
  BY <1>1, <1>2, <1>3

\* FilesInOrder is kept.
LEMMA FilesStep == CompleteInv /\ [Next]_vars => FilesInOrder'
<1>. SUFFICES ASSUME CompleteInv, [Next]_vars, NEW v \in Workers,
                     inst'[v] \in Files, pc'[v] = "record", result'[v] = "SUCCEEDED"
              PROVE  identity'[inst'[v]] # None
  BY DEF FilesInOrder
<1>. USE DEF Goto, FailArchive, WorkerTypeOK
<1>0. /\ TypeInv /\ WorkerTypeOK /\ RowTypeOK /\ LocalOK(v) /\ None \notin Files
      /\ Files \cap Archives = {}
      /\ inst[v] \in Files /\ pc[v] = "record" /\ result[v] = "SUCCEEDED" => identity[inst[v]] # None
      /\ IdentitiesKept /\ Files \subseteq Roots
  BY RowsAssumption, IdentityStep
     DEF CompleteInv, TypeInv, TypeOK, LocalsOK, FilesInOrder, Roots
<1>1. CASE Same(v)
  BY <1>0, <1>1 DEF Same, IdentitiesKept
<1>2. CASE Assign(v)
  <2>1. inst[v] \in Files /\ Item(v) = inst[v] /\ read[v] \in Groups
    BY <1>0, <1>2 DEF Assign, Item, LocalOK, Looking
  <2>. QED
    BY <1>0, <1>2, <2>1, RowsAssumption DEF Assign, RowTypeOK
<1>3. CASE Finish(v)
  BY <1>0, <1>3, Finished
<1>4. CASE ReadFile(v) \/ Settle(v) \/ GiveBack(v)
  BY <1>0, <1>3, <1>4 DEF ReadFile, Settle, GiveBack, LocalOK
<1>5. CASE pc'[v] # "record"
  BY <1>5
<1>6. ASSUME ReadClaim(v) \/ Find(v) \/ Create(v) \/ BeginWrite(v) \/ WriteContent(v) \/ Admit(v)
             \/ Extract(v) \/ Visit(v) \/ Record(v) \/ \E i \in scenario.roots : Claim(v, i)
      PROVE  pc'[v] # "record"
  BY <1>0, <1>6 DEF ReadClaim, Find, Create, BeginWrite, WriteContent, CannotWrite, AfterGroup,
     Admit, Extract,
      Visit, Enter, Record, Claim
<1>7. ASSUME Insert(v) \/ Release(v) \/ Crash(v)
      PROVE  pc'[v] # "record" \/ Finish(v)
  BY <1>0, <1>7 DEF Insert, Enter, Release, Crash
<1>8. Same(v) \/ MyStep(v)
  BY <1>0, OnlyMine, OthersKeepWorkers DEF Next, MyStep, OtherSteps, Same, localVars
<1>. QED
  BY <1>1, <1>2, <1>3, <1>4, <1>6, <1>7, <1>8 DEF MyStep, WorkerStep

\* BytesFirst is kept.
LEMMA BytesStep == CompleteInv /\ [Next]_vars => BytesFirst'
<1>. SUFFICES ASSUME CompleteInv, [Next]_vars, NEW v \in Workers,
                     \/ pc'[v] = "writing"
                     \/ pc'[v] = "assign" /\ Eligibility[Item(v)'] = "ELIGIBLE"
              PROVE  Target(v)' \in content'
  BY DEF BytesFirst
<1>. USE DEF Goto, FailArchive, WorkerTypeOK
<1>0. /\ TypeInv /\ WorkerTypeOK
      /\ pc[v] = "writing" \/ (pc[v] = "assign" /\ Eligibility[Item(v)] = "ELIGIBLE")
         => Target(v) \in content
      /\ content \subseteq content'
  BY RowsGrow DEF CompleteInv, TypeInv, TypeOK, BytesFirst
<1>1. CASE Same(v)
  BY <1>0, <1>1 DEF Same, Item, Target
<1>2. CASE Find(v) \/ Create(v)
  <2>1. pc'[v] = "assign" /\ Eligibility[Item(v)] # "ELIGIBLE"
    BY <1>0, <1>2 DEF Find, Create, AfterGroup
  <2>2. UNCHANGED <<inst, at>>
    BY <1>2 DEF Find, Create
  <2>. QED
    BY <2>1, <2>2 DEF Item
<1>3. CASE BeginWrite(v)
  <2>1. UNCHANGED <<inst, at, read>> /\ Target(v) \in content'
    BY <1>0, <1>3 DEF BeginWrite, CannotWrite
  <2>. QED
    BY <2>1 DEF Target, Item
<1>3w. CASE WriteContent(v)
  <2>1. UNCHANGED <<inst, at, read>> /\ Target(v) \in content
    BY <1>0, <1>3w DEF WriteContent
  <2>. QED
    BY <1>0, <2>1 DEF Target, Item
<1>4. CASE Finish(v)
  BY <1>0, <1>4, Finished
<1>5. ASSUME ReadClaim(v) \/ ReadFile(v) \/ Assign(v) \/ Admit(v) \/ Extract(v) \/ Visit(v)
             \/ Insert(v) \/ Settle(v) \/ GiveBack(v) \/ Record(v) \/ Release(v) \/ Crash(v)
             \/ \E i \in scenario.roots : Claim(v, i)
      PROVE  pc'[v] \notin {"writing", "assign"} \/ Finish(v)
  BY <1>0, <1>5 DEF ReadClaim, ReadFile, Assign, Admit, Extract, Visit, Insert, Enter,
      Settle, GiveBack, Record, Release, Crash, Claim
<1>6. Same(v) \/ MyStep(v)
  BY <1>0, OnlyMine, OthersKeepWorkers DEF Next, MyStep, OtherSteps, Same, localVars
<1>. QED
  BY <1>1, <1>2, <1>3, <1>3w, <1>4, <1>5, <1>6 DEF MyStep, WorkerStep

\* Attempts are recorded by Record alone.
LEMMA AttemptsStep ==
    ASSUME [Next]_vars, ~UNCHANGED attempts
    PROVE  \E w \in Workers : Record(w)
<1>1. ASSUME NEW w \in Workers,
             ReadClaim(w) \/ ReadFile(w) \/ Find(w) \/ Create(w) \/ BeginWrite(w) \/
             WriteContent(w) \/ Assign(w)
             \/ Admit(w) \/ Extract(w) \/ Visit(w) \/ Insert(w) \/ Settle(w) \/ GiveBack(w)
             \/ Release(w) \/ Crash(w) \/ \E j \in scenario.roots : Claim(w, j)
      PROVE  UNCHANGED attempts
  BY <1>1 DEF ReadClaim, ReadFile, Find, Create, BeginWrite, WriteContent, CannotWrite, Assign,
     Admit, Extract,
      Visit, Insert, Settle, GiveBack, Release, Crash, Claim
<1>2. ASSUME OtherSteps \/ UNCHANGED vars PROVE UNCHANGED attempts
  BY <1>2 DEF OtherSteps, Reconcile, ReportAttempted, ReportTerminal, ReportSuccessful,
      Decide, LeaseExpires, AttemptGroup, SettleGroup, ControlBatch, vars
<1>. QED
  BY <1>1, <1>2 DEF Next, WorkerStep, OtherSteps

\* A success on record stays complete, and a new one is.
LEMMA SuccessStep == CompleteInv /\ [Next]_vars => FilesThere' /\ ProcessedIsDone'
<1>. SUFFICES ASSUME CompleteInv, [Next]_vars PROVE FilesThere' /\ ProcessedIsDone'
  OBVIOUS
<1>0. /\ TypeInv /\ WorkerTypeOK /\ RowTypeOK /\ LocalsOK /\ FilesThere /\ ProcessedIsDone
      /\ IdentitiesKept /\ content \subseteq content' /\ Files \subseteq Roots
      /\ Items \subseteq Roots \cup Members
  BY RowsGrow, IdentityStep DEF CompleteInv, TypeInv, TypeOK, Roots, Items
<1>1. ASSUME NEW i \in Items, identity'[i] # None, Eligibility[i] = "ELIGIBLE"
      PROVE  <<identity'[i], Suffix[i]>> \in content'
  <2>1. CASE identity[i] # None
    BY <1>0, <1>1, <2>1 DEF IdentitiesKept, FilesThere
  <2>2. CASE identity[i] = None
    <3>1. PICK w \in Workers : Assign(w)
      BY <1>0, <1>1, <2>2, IdentityStep
    <3>2. i = Item(w) /\ identity'[i] = read[w]
      BY <1>0, <1>1, <2>2, <3>1 DEF Assign, RowTypeOK
    <3>3. Target(w) \in content
      BY <1>1, <3>1, <3>2 DEF CompleteInv, BytesFirst, Assign
    <3>. QED
      BY <1>0, <3>2, <3>3 DEF Target
  <2>. QED
    BY <2>1, <2>2
<1>2. ASSUME NEW i \in Roots, Processed(i)'
      PROVE  Processed(i) \/ \E w \in Workers : inst[w] = i /\ Record(w) /\ result[w] = "SUCCEEDED"
  BY <1>2, AttemptsStep DEF Record, Processed
<1>3. ASSUME NEW i \in Files, Processed(i)' PROVE identity'[i] # None
  <2>1. CASE Processed(i)
    BY <1>0, <1>3, <2>1 DEF ProcessedIsDone, IdentitiesKept
  <2>2. ASSUME NEW w \in Workers, inst[w] = i, Record(w), result[w] = "SUCCEEDED"
        PROVE  identity'[i] # None
    BY <1>0, <1>3, <2>2 DEF CompleteInv, FilesInOrder, Record, IdentitiesKept
  <2>. QED
    BY <1>0, <1>2, <1>3, <2>1, <2>2
<1>4. ASSUME NEW i \in Archives, Processed(i)', NEW n \in DOMAIN Walk[i]
      PROVE  Entered(Walk[i][n])'
  <2>1. CASE Processed(i)
    <3>1. Entered(Walk[i][n])
      BY <1>4, <2>1, RowsAssumption DEF CompleteInv, ProcessedIsDone, Roots, Entered
    <3>. QED
      BY <1>0, <1>4, <3>1, WalkType, EnteredStays
  <2>2. ASSUME NEW w \in Workers, inst[w] = i, Record(w), result[w] = "SUCCEEDED"
        PROVE  Entered(Walk[i][n])'
    <3>1. Entered(Walk[i][n])
      BY <1>4, <2>2 DEF CompleteInv, WalksInOrder, WalkInOrder, Record
    <3>. QED
      BY <1>0, <1>4, <3>1, WalkType, EnteredStays
  <2>. QED
    BY <1>2, <1>4, <2>1, <2>2 DEF Roots
<1>. QED
  BY <1>1, <1>3, <1>4 DEF FilesThere, ProcessedIsDone, Entered, Roots

\* Rows have their identities and files, and successes are complete.
LEMMA CompleteInvariance == Spec => []CompleteInv
<1>1. Init => CompleteInv
  BY TypeInit, RowsAssumption
     DEF Init, CompleteInv, WalksInOrder, FilesInOrder, BytesFirst, FilesThere,
     ProcessedIsDone, Items, Roots, Processed
<1>2. CompleteInv /\ [Next]_vars => CompleteInv'
  BY TypeStep, WalksStep, FilesStep, BytesStep, SuccessStep DEF CompleteInv
<1>. QED
  BY <1>1, <1>2, PTL DEF Spec
-----------------------------------------------------------------------------
(* Whole files                                                             *)

\* A file that is not whole is being written by whoever truncated it last, unless
\* something went wrong.
CutsKnown ==
    \A f \in WorkspaceFiles, w \in Workers :
        cut[f] = w => BrokenOff \/ (pc[w] = "writing" /\ Target(w) = f)

\* What a worker has read is what its leaf may hold.
OwnRead(w) ==
    pc[w] \in Looking \ {"find"} \/ (pc[w] = "find" /\ inst[w] \in Files)
        => read[w] \in ContentOf[Item(w)]

\* Where nobody is overtaken a leaf at hand has no identity, ...
Unresolved(w) ==
    scenario.stalls = {} =>
        /\ inst[w] \in Files /\ pc[w] \in {"claimed", "read"} => identity[inst[w]] = None
        /\ pc[w] \in Looking => identity[Item(w)] = None

\* ... and a worker whose file nobody else writes has truncated it itself, and
\* leaves it whole.
SoleTarget(w) ==
    /\ scenario.stalls = {}
    /\ \A j \in Leaves \ {Item(w)} :
          Suffix[j] = Suffix[Item(w)] => read[w] \notin ContentOf[j]

WritesWhole(w) ==
    SoleTarget(w) =>
        /\ pc[w] = "writing" => cut[Target(w)] = w
        /\ pc[w] = "assign" /\ Eligibility[Item(w)] = "ELIGIBLE" => cut[Target(w)] = None

IdentityHasRow == \A m \in Members : identity[m] # None => m \in rows

StaysWhole ==
    \A i \in Items : identity[i] # None /\ Eligibility[i] = "ELIGIBLE" /\ SoleWriter(i)
                     => cut[<<identity[i], Suffix[i]>>] = None

WholeInv ==
    /\ ClaimInv /\ CompleteInv /\ CutsKnown /\ IdentityHasRow /\ StaysWhole
    /\ \A w \in Workers : OwnRead(w) /\ Unresolved(w) /\ WritesWhole(w)

\* The leaf a worker looks at belongs to the batch.
LEMMA LeafAtHand ==
    ASSUME TypeInv, NEW w \in Workers, pc[w] \in Looking
    PROVE  Item(w) \in Leaves
<1>1. inst[w] \in Roots \cap scenario.roots
  BY ItemType
<1>2. CASE inst[w] \in Files
  BY <1>1, <1>2 DEF Item, Leaves
<1>3. CASE inst[w] \in Archives
  <2>1. at[w] \in DOMAIN Walk[inst[w]] /\ inst[w] \notin Files
    BY <1>3, RowsAssumption DEF TypeInv, LocalsOK, LocalOK
  <2>2. Walk[inst[w]][at[w]] \in Range(Walk[inst[w]])
    BY <2>1 DEF Range
  <2>. QED
    BY <1>1, <1>3, <2>1, <2>2 DEF Item, Leaves
<1>. QED
  BY <1>1, <1>2, <1>3 DEF Roots

\* Two workers look at different leaves where nobody is overtaken.
LEMMA LeavesDiffer ==
    ASSUME ClaimInv, scenario.stalls = {}, NEW v \in Workers, NEW w \in Workers, v # w,
           pc[v] \in Looking \/ (inst[v] \in Files /\ pc[v] \in {"claimed", "read"}),
           pc[w] \in Looking
    PROVE  Item(v) # Item(w)
<1>0. TypeInv /\ Alone /\ LocalOK(v) /\ LocalOK(w)
  BY DEF ClaimInv, TypeInv, LocalsOK
<1>1. inst[v] # None /\ inst[w] # None
  BY <1>0, RowsAssumption DEF LocalOK, Looking, Roots
<1>2. inst[v] # inst[w]
  BY <1>0, <1>1 DEF Alone
<1>3. /\ inst[v] \in Roots /\ inst[w] \in Roots
      /\ inst[v] \in Archives => at[v] \in DOMAIN Walk[inst[v]] /\ Walk[inst[v]][at[v]] \in Members
      /\ inst[w] \in Archives => at[w] \in DOMAIN Walk[inst[w]] /\ Walk[inst[w]][at[w]] \in Members
  BY <1>0, <1>1, WalkType, RowsAssumption DEF LocalOK, TypeInv, TypeOK, WorkerTypeOK
<1>4. CASE inst[v] \in Archives /\ inst[w] \in Archives
  <2>1. /\ Walk[inst[v]][at[v]] \in Range(Walk[inst[v]])
        /\ Walk[inst[w]][at[w]] \in Range(Walk[inst[w]])
    BY <1>3, <1>4 DEF Range
  <2>2. Item(v) = Walk[inst[v]][at[v]] /\ Item(w) = Walk[inst[w]][at[w]]
    BY <1>4, RowsAssumption DEF Item
  <2>. QED
    BY <1>2, <1>4, <2>1, <2>2, WalkAssumption
<1>. QED
  BY <1>2, <1>3, <1>4, RowsAssumption DEF Item, Roots

\* Only the two halves of a write touch what is whole, each at its own file.
LEMMA CutStep ==
    ASSUME TypeInv, [Next]_vars
    PROVE  UNCHANGED cut \/ \E w \in Workers : BeginWrite(w) \/ WriteContent(w)
<1>1. ASSUME NEW w \in Workers,
             ReadClaim(w) \/ ReadFile(w) \/ Find(w) \/ Create(w) \/ Assign(w) \/ Admit(w)
             \/ Extract(w) \/ Visit(w) \/ Insert(w) \/ Settle(w) \/ GiveBack(w) \/ Record(w)
             \/ Release(w) \/ Crash(w) \/ \E i \in scenario.roots : Claim(w, i)
      PROVE  UNCHANGED cut
  BY <1>1 DEF ReadClaim, ReadFile, Find, Create, Assign, Admit, Extract, Visit, Insert,
      Settle, GiveBack, Record, Release, Crash, Claim, groupVars
<1>2. ASSUME OtherSteps \/ UNCHANGED vars PROVE UNCHANGED cut
  BY <1>2 DEF OtherSteps, Reconcile, ReportAttempted, ReportTerminal, ReportSuccessful,
      Decide, LeaseExpires, AttemptGroup, SettleGroup, ControlBatch, vars, groupVars
<1>. QED
  BY <1>1, <1>2 DEF Next, WorkerStep, OtherSteps

\* A step of a worker, or one that leaves it alone.
LEMMA MineOrSame ==
    ASSUME TypeInv, [Next]_vars, NEW v \in Workers
    PROVE  Same(v) \/ MyStep(v)
BY OnlyMine, OthersKeepWorkers DEF Next, MyStep, OtherSteps, Same, localVars

\* What a write does to the files.
LEMMA Writing ==
    ASSUME TypeInv, NEW w \in Workers
    PROVE  /\ BeginWrite(w) =>
                /\ pc[w] = "write" /\ UNCHANGED <<inst, at, read, identity>>
                /\ \/ /\ pc'[w] = "writing" /\ cut'[Target(w)] = w
                      /\ \A f \in WorkspaceFiles \ {Target(w)} : cut'[f] = cut[f]
                   \/ pc'[w] \in {"release", "giveBack"} /\ UNCHANGED cut
           /\ WriteContent(w) =>
                /\ pc[w] = "writing" /\ UNCHANGED <<inst, at, read, identity>>
                /\ \A f \in WorkspaceFiles : cut'[f] \in {cut[f], None}
                /\ \/ /\ pc'[w] = "assign"
                      /\ \A f \in WorkspaceFiles \ {Target(w)} : cut'[f] = cut[f]
                      /\ cut[Target(w)] \in {w, None} => cut'[Target(w)] = None
                   \/ /\ pc'[w] \in {"release", "giveBack"} /\ UNCHANGED cut
                      /\ "write" \in scenario.faults
<1>0. WorkerTypeOK /\ cut \in [WorkspaceFiles -> Workers \cup {None}]
  BY DEF TypeInv, TypeOK, GroupTypeOK
<1>1. ASSUME pc[w] \in {"write", "writing"} PROVE Target(w) \in WorkspaceFiles
  BY <1>1, TargetType DEF Looking
<1>2. CASE BeginWrite(w)
  BY <1>0, <1>1, <1>2 DEF BeginWrite, WriteContent, CannotWrite, Goto, FailArchive, WorkerTypeOK
<1>3. CASE WriteContent(w)
  BY <1>0, <1>1, <1>3 DEF BeginWrite, WriteContent, CannotWrite, Goto, FailArchive, WorkerTypeOK
<1>. QED
  BY <1>2, <1>3

\* CutsKnown is kept.
LEMMA CutsStep == WholeInv /\ [Next]_vars => CutsKnown'
<1>. SUFFICES ASSUME WholeInv, [Next]_vars, NEW f \in WorkspaceFiles, NEW v \in Workers,
                     cut'[f] = v, ~BrokenOff'
              PROVE  pc'[v] = "writing" /\ Target(v)' = f
  BY DEF CutsKnown
<1>0. /\ TypeInv /\ WorkerTypeOK /\ crashes \in Nat
      /\ cut \in [WorkspaceFiles -> Workers \cup {None}]
      /\ cut[f] = v => BrokenOff \/ (pc[v] = "writing" /\ Target(v) = f)
  BY DEF WholeInv, CompleteInv, TypeInv, TypeOK, WorkerTypeOK, GroupTypeOK, CutsKnown
<1>1. UNCHANGED scenario
  BY DEF Next, vars
<1>2. UNCHANGED crashes
  <2>1. ASSUME NEW w \in Workers, MyStep(w) PROVE UNCHANGED crashes \/ crashes' = crashes + 1
    BY <2>1 DEF MyStep, WorkerStep, ReadClaim, ReadFile, Find, Create, BeginWrite,
        WriteContent, Assign, Admit, Extract, Visit, Insert, Settle, GiveBack, Record,
        Release, Crash, Claim
  <2>2. UNCHANGED crashes \/ crashes' = crashes + 1
    BY <2>1, OthersKeepWorkers DEF Next, MyStep, OtherSteps
  <2>. QED
    BY <1>0, <2>2 DEF BrokenOff
<1>3. ~BrokenOff
  BY <1>1, <1>2 DEF BrokenOff
<1>4. None \notin Workers
  BY RowsAssumption
<1>5. CASE cut'[f] = cut[f]
  <2>1. pc[v] = "writing" /\ Target(v) = f
    BY <1>0, <1>3, <1>5
  <2>2. CASE Same(v)
    BY <2>1, <2>2 DEF Same, Target, Item
  <2>3. CASE MyStep(v)
    <3>1. ~Crash(v)
      BY <1>0, <1>2 DEF Crash
    <3>2. WriteContent(v)
      BY <2>1, <2>3, <3>1 DEF MyStep, WorkerStep, ReadClaim, ReadFile, Find, Create,
         BeginWrite, Assign, Admit, Extract, Visit, Insert, Settle, GiveBack, Record,
         Release, Claim
    <3>. QED
      BY <1>0, <1>3, <1>4, <2>1, <3>2, Writing DEF BrokenOff
  <2>. QED
    BY <1>0, <2>2, <2>3, MineOrSame
<1>6. CASE cut'[f] # cut[f]
  <2>1. PICK w \in Workers : BeginWrite(w) \/ WriteContent(w)
    BY <1>0, <1>6, CutStep
  <2>2. BeginWrite(w) /\ f = Target(w) /\ cut'[f] = w /\ pc'[w] = "writing"
    BY <1>0, <1>4, <1>6, <2>1, Writing
  <2>3. Target(w)' = Target(w)
    BY <1>0, <2>2, Writing DEF Target, Item
  <2>. QED
    BY <2>2, <2>3
<1>. QED
  BY <1>5, <1>6

\* OwnRead is kept.
LEMMA OwnReadStep ==
    ASSUME WholeInv, [Next]_vars, NEW v \in Workers
    PROVE  OwnRead(v)'
<1>. USE DEF Goto, FailArchive
<1>0. TypeInv /\ WorkerTypeOK /\ LocalOK(v) /\ OwnRead(v)
  BY DEF WholeInv, CompleteInv, TypeInv, TypeOK, LocalsOK
<1>1. CASE Same(v)
  BY <1>0, <1>1 DEF Same, OwnRead, Item
<1>2. CASE ReadFile(v) \/ Find(v)
  <2>1. Item(v) \in Items /\ UNCHANGED <<inst, at>>
    BY <1>0, <1>2, ItemType DEF ReadFile, Find, Looking
  <2>2. HasRead(v) => read'[v] \in ContentOf[Item(v)]
    BY <1>0 DEF HasRead, WorkerTypeOK
  <2>3. Item(v)' = Item(v)
    BY <2>1 DEF Item
  <2>4. pc'[v] \in Looking => read'[v] \in ContentOf[Item(v)]
    BY <1>0, <1>2, <2>2, RowsAssumption
       DEF ReadFile, Find, WorkerTypeOK, OwnRead, Looking, AfterGroup, Roots
  <2>. QED
    BY <2>3, <2>4 DEF OwnRead, Looking
<1>3. CASE Create(v) \/ BeginWrite(v) \/ WriteContent(v)
  <2>1. UNCHANGED <<inst, at, read>> /\ pc[v] \in Looking \ {"find"}
    BY <1>0, <1>3 DEF Create, BeginWrite, WriteContent, Looking
  <2>2. UNCHANGED Item(v) /\ read[v] \in ContentOf[Item(v)]
    BY <1>0, <2>1 DEF OwnRead, Item
  <2>. QED
    BY <2>1, <2>2 DEF OwnRead
<1>4. CASE pc'[v] \notin Looking
  BY <1>4 DEF OwnRead, Looking
<1>5. CASE pc'[v] = "find" /\ inst'[v] \notin Files
  BY <1>5 DEF OwnRead, Looking
<1>6. ASSUME Visit(v) \/ Insert(v)
      PROVE  pc'[v] \notin Looking \/ (pc'[v] = "find" /\ inst'[v] \notin Files)
  <2>1. inst[v] \in Archives /\ inst[v] \notin Files /\ pc[v] \notin Looking
    BY <1>0, <1>6, RowsAssumption DEF Visit, Insert, LocalOK, Looking
  <2>. QED
    BY <1>0, <1>6, <2>1, Finished DEF Visit, Insert, Enter, WorkerTypeOK, Looking
<1>7. ASSUME ReadClaim(v) \/ Assign(v) \/ Admit(v) \/ Extract(v) \/ Settle(v) \/ GiveBack(v)
             \/ Record(v) \/ Release(v) \/ Crash(v) \/ \E i \in scenario.roots : Claim(v, i)
      PROVE  pc'[v] \notin Looking
  BY <1>0, <1>7, Finished DEF ReadClaim, Assign, Admit, Extract, Settle, GiveBack, Record,
      Release, Crash, Claim, WorkerTypeOK, Looking
<1>. QED
  BY <1>0, <1>1, <1>2, <1>3, <1>4, <1>5, <1>6, <1>7, MineOrSame DEF MyStep, WorkerStep

\* A member gets an identity after its row.
LEMMA HasRowStep == WholeInv /\ [Next]_vars => IdentityHasRow'
<1>. SUFFICES ASSUME WholeInv, [Next]_vars, NEW m \in Members, identity'[m] # None
              PROVE  m \in rows'
  BY DEF IdentityHasRow
<1>0. TypeInv /\ RowTypeOK /\ rows \subseteq rows' /\ WalksInOrder
  BY RowsGrow DEF WholeInv, CompleteInv, TypeInv, TypeOK
<1>1. CASE identity[m] # None
  BY <1>0, <1>1 DEF WholeInv, IdentityHasRow
<1>2. CASE identity[m] = None
  <2>1. PICK w \in Workers : Assign(w)
    BY <1>0, <1>2, IdentityStep
  <2>2. m = Item(w) /\ pc[w] = "assign" /\ pc[w] \in Looking
    BY <1>0, <1>2, <2>1 DEF Assign, RowTypeOK, Looking
  <2>3. inst[w] \in Archives
    BY <1>0, <2>2, ItemType, RowsAssumption DEF Item, Roots
  <2>4. Item(w) \in rows
    BY <1>0, <2>2, <2>3, RowsAssumption DEF WalksInOrder, WalkInOrder, Item
  <2>. QED
    BY <1>0, <2>2, <2>4
<1>. QED
  BY <1>1, <1>2

\* Unresolved is kept.
LEMMA UnresolvedStep ==
    ASSUME WholeInv, [Next]_vars, NEW v \in Workers
    PROVE  Unresolved(v)'
<1>. USE DEF Goto, FailArchive
<1>0. /\ TypeInv /\ WorkerTypeOK /\ RowTypeOK /\ LocalOK(v) /\ Unresolved(v) /\ ClaimInv
      /\ UNCHANGED scenario /\ Files \cap Archives = {}
  BY RowsAssumption
     DEF WholeInv, CompleteInv, TypeInv, TypeOK, LocalsOK, Next, vars
<1>. SUFFICES ASSUME scenario.stalls = {}
              PROVE  /\ inst'[v] \in Files /\ pc'[v] \in {"claimed", "read"}
                            => identity'[inst'[v]] = None
                     /\ pc'[v] \in Looking => identity'[Item(v)'] = None
  BY <1>0 DEF Unresolved
<1>1. CASE Same(v)
  <2>1. Item(v)' = Item(v)
    BY <1>1 DEF Same, Item
  <2>2. CASE UNCHANGED identity
    BY <1>0, <1>1, <2>1, <2>2 DEF Same, Unresolved
  <2>3. ASSUME NEW w \in Workers, Assign(w)
        PROVE  /\ inst'[v] \in Files /\ pc'[v] \in {"claimed", "read"}
                      => identity'[inst'[v]] = None
               /\ pc'[v] \in Looking => identity'[Item(v)'] = None
    <3>1. w # v /\ pc[w] \in Looking
      <4>1. pc'[w] # "assign" /\ pc[w] = "assign"
        BY <1>0, <2>3 DEF Assign, WorkerTypeOK
      <4>. QED
        BY <1>1, <4>1 DEF Same, Looking
    <3>2. \A i \in Roots \cup Members : i # Item(w) => identity'[i] = identity[i]
      BY <1>0, <2>3 DEF Assign, RowTypeOK
    <3>3. CASE pc[v] \in Looking
      <4>1. Item(v) # Item(w) /\ Item(v) \in Roots \cup Members
        BY <1>0, <3>1, <3>3, LeavesDiffer, ItemType DEF Items, Roots, Looking
      <4>. QED
        BY <1>0, <1>1, <2>1, <3>2, <3>3, <4>1 DEF Same, Unresolved, Looking
    <3>4. CASE inst[v] \in Files /\ pc[v] \in {"claimed", "read"}
      <4>1. Item(v) # Item(w) /\ Item(v) = inst[v]
        BY <1>0, <3>1, <3>4, LeavesDiffer DEF Item
      <4>. QED
        BY <1>0, <1>1, <2>1, <3>2, <3>4, <4>1 DEF Same, Unresolved, Looking, Roots
    <3>. QED
      BY <1>1, <3>3, <3>4 DEF Same
  <2>. QED
    BY <1>0, <2>2, <2>3, IdentityStep
<1>2. ASSUME NEW i \in scenario.roots, Claim(v, i)
      PROVE  /\ inst'[v] = i /\ pc'[v] = "claimed" /\ identity'[i] = None
  BY <1>0, <1>2 DEF Claim, Claimable, WorkerTypeOK
<1>3. CASE ReadClaim(v) \/ ReadFile(v)
  <2>1. /\ UNCHANGED <<identity, inst, at>> /\ pc[v] \in {"claimed", "read"}
        /\ pc'[v] \in Looking \cup {"read"} => inst[v] \in Files
    BY <1>0, <1>3 DEF ReadClaim, ReadFile, WorkerTypeOK, LocalOK, Looking
  <2>. QED
    BY <1>0, <1>3, <2>1 DEF Unresolved, Item, ReadClaim, ReadFile, WorkerTypeOK
<1>4. CASE Find(v) \/ Create(v) \/ BeginWrite(v) \/ WriteContent(v)
  <2>1. /\ UNCHANGED <<identity, inst, at>> /\ pc[v] \in Looking
        /\ pc'[v] \notin {"claimed", "read"}
    BY <1>0, <1>4 DEF Find, Create, BeginWrite, WriteContent, CannotWrite, AfterGroup,
        WorkerTypeOK, Looking
  <2>. QED
    BY <1>0, <2>1 DEF Unresolved, Item
<1>5. ASSUME Assign(v) \/ Admit(v) \/ Extract(v) \/ Settle(v) \/ GiveBack(v)
             \/ Record(v) \/ Release(v) \/ Crash(v)
      PROVE  pc'[v] \notin Looking \cup {"claimed", "read"}
  BY <1>0, <1>5, Finished DEF Assign, Admit, Extract, Settle, GiveBack, Record,
      Release, Crash, WorkerTypeOK, Looking
<1>6. ASSUME Visit(v) \/ Insert(v)
      PROVE  \/ pc'[v] \notin Looking \cup {"claimed", "read"}
             \/ /\ UNCHANGED <<identity, inst, at>> /\ pc'[v] = "find" /\ inst[v] \in Archives
                /\ identity[Walk[inst[v]][at[v]]] = None
  <2>1. inst[v] \in Archives /\ pc[v] \notin Looking \cup {"claimed", "read"}
    BY <1>0, <1>6 DEF Visit, Insert, LocalOK, Looking
  <2>. DEFINE m == Walk[inst[v]][at[v]]
  <2>2. CASE Finish(v)
    BY <1>0, <2>2, Finished DEF Looking
  <2>3. CASE Enter(v, m) /\ identity[m] = None /\ UNCHANGED <<identity, inst>>
    BY <1>0, <2>1, <2>3 DEF Enter, WorkerTypeOK, Looking
  <2>4. CASE Enter(v, m) /\ Kind[m] # "leaf" /\ UNCHANGED <<identity, inst>>
    BY <1>0, <2>1, <2>4 DEF Enter, WorkerTypeOK, Looking
  <2>5. CASE Visit(v)
    <3>1. CASE m \in rows /\ ~Done(m) /\ Enter(v, m)
      BY <1>6, <2>3, <2>4, <2>5, <3>1 DEF Done, Visit
    <3>2. CASE UNCHANGED pc \/ Goto(v, "settle") \/ Goto(v, "insert")
      BY <1>0, <2>1, <3>2 DEF WorkerTypeOK, Looking
    <3>. QED
      BY <2>5, <3>1, <3>2 DEF Visit
  <2>6. CASE Insert(v)
    <3>1. m \in Members
      BY <1>0, <2>6, ItemType DEF Insert
    <3>2. m \notin rows => identity[m] = None
      BY <3>1 DEF WholeInv, IdentityHasRow
    <3>. QED
      BY <2>2, <2>3, <2>6, <3>2 DEF Insert
  <2>. QED
    BY <1>6, <2>5, <2>6
<1>7. CASE Visit(v) \/ Insert(v)
  BY <1>0, <1>6, <1>7 DEF Item, Looking
<1>8. CASE \E i \in scenario.roots : Claim(v, i)
  BY <1>2, <1>8 DEF Looking
<1>. QED
  BY <1>0, <1>1, <1>3, <1>4, <1>5, <1>7, <1>8, MineOrSame DEF MyStep, WorkerStep

\* WritesWhole is kept.
LEMMA WritesStep ==
    ASSUME WholeInv, [Next]_vars, NEW v \in Workers
    PROVE  WritesWhole(v)'
<1>. USE DEF Goto, FailArchive
<1>0. /\ TypeInv /\ WorkerTypeOK /\ GroupTypeOK /\ ClaimInv /\ LocalOK(v)
      /\ UNCHANGED scenario /\ WritesWhole(v) /\ OwnRead(v) /\ Unresolved(v)
  BY DEF WholeInv, CompleteInv, TypeInv, TypeOK, LocalsOK, Next, vars
<1>1. CASE Same(v)
  <2>1. Item(v)' = Item(v) /\ Target(v)' = Target(v) /\ Leaves' = Leaves
    BY <1>0, <1>1 DEF Same, Item, Target, Leaves
  <2>. SUFFICES ASSUME SoleTarget(v), pc[v] \in {"writing", "assign"}
                PROVE  cut'[Target(v)] = cut[Target(v)]
    BY <1>0, <1>1, <2>1 DEF WritesWhole, SoleTarget, Same
  <2>2. ASSUME NEW w \in Workers, BeginWrite(w) \/ WriteContent(w)
        PROVE  Target(w) # Target(v)
    <3>1. pc[w] \in Looking \ {"find"} /\ pc[v] \in Looking
      BY <2>2 DEF BeginWrite, WriteContent, Looking
    <3>2. w # v
      <4>1. pc'[w] # pc[w]
        BY <1>0, <2>2, Writing
      <4>. QED
        BY <1>1, <4>1 DEF Same
    <3>3. Item(w) # Item(v) /\ Item(w) \in Leaves
      BY <1>0, <3>1, <3>2, LeavesDiffer, LeafAtHand DEF SoleTarget
    <3>4. read[w] \in ContentOf[Item(w)]
      BY <3>1 DEF WholeInv, OwnRead
    <3>. QED
      BY <3>3, <3>4 DEF SoleTarget, Target
  <2>3. Target(v) \in WorkspaceFiles
    BY <1>0, TargetType DEF Looking
  <2>4. ASSUME NEW w \in Workers, BeginWrite(w) \/ WriteContent(w)
        PROVE  cut'[Target(v)] = cut[Target(v)]
    BY <1>0, <2>2, <2>3, <2>4, Writing
  <2>. QED
    BY <1>0, <2>4, CutStep
<1>2. CASE BeginWrite(v) \/ WriteContent(v)
  <2>1. Item(v)' = Item(v) /\ Target(v)' = Target(v) /\ Leaves' = Leaves
    BY <1>0, <1>2, Writing DEF Item, Target, Leaves
  <2>2. SoleTarget(v)' => SoleTarget(v)
    BY <1>0, <1>2, <2>1, Writing DEF SoleTarget
  <2>. QED
    BY <1>0, <1>2, <2>1, <2>2, Writing DEF WritesWhole
<1>3. CASE pc'[v] \notin {"writing", "assign"}
  BY <1>3 DEF WritesWhole
<1>4. CASE Find(v) \/ Create(v)
  <2>1. pc'[v] = "assign" => Eligibility[Item(v)] # "ELIGIBLE"
    BY <1>0, <1>4 DEF Find, Create, AfterGroup, WorkerTypeOK
  <2>2. Item(v)' = Item(v) /\ pc'[v] # "writing"
    BY <1>0, <1>4 DEF Find, Create, AfterGroup, WorkerTypeOK, Item
  <2>. QED
    BY <2>1, <2>2 DEF WritesWhole
<1>5. ASSUME Visit(v) \/ Insert(v) PROVE pc'[v] \notin {"writing", "assign"}
  BY <1>0, <1>5, Finished DEF Visit, Insert, Enter, WorkerTypeOK
<1>6. ASSUME ReadClaim(v) \/ ReadFile(v) \/ Assign(v) \/ Admit(v) \/ Extract(v) \/ Settle(v)
             \/ GiveBack(v) \/ Record(v) \/ Release(v) \/ Crash(v)
             \/ \E i \in scenario.roots : Claim(v, i)
      PROVE  pc'[v] \notin {"writing", "assign"}
  BY <1>0, <1>6, Finished DEF ReadClaim, ReadFile, Assign, Admit, Extract, Settle, GiveBack,
      Record, Release, Crash, Claim, WorkerTypeOK
<1>. QED
  BY <1>0, <1>1, <1>2, <1>3, <1>4, <1>5, <1>6, MineOrSame DEF MyStep, WorkerStep

\* StaysWhole is kept.
LEMMA StaysWholeStep == WholeInv /\ [Next]_vars => StaysWhole'
<1>. SUFFICES ASSUME WholeInv, [Next]_vars, NEW i \in Items, identity'[i] # None,
                     Eligibility[i] = "ELIGIBLE", SoleWriter(i)'
              PROVE  cut'[<<identity'[i], Suffix[i]>>] = None
  BY DEF StaysWhole
<1>0. /\ TypeInv /\ RowTypeOK /\ GroupTypeOK /\ UNCHANGED scenario /\ Leaves' = Leaves
      /\ Items \subseteq Roots \cup Members /\ scenario.stalls = {}
  BY DEF WholeInv, CompleteInv, TypeInv, TypeOK, Next, vars, Leaves, Items, Roots, SoleWriter
<1>. DEFINE f == <<identity'[i], Suffix[i]>>
<1>1. CASE identity[i] # None
  <2>1. identity'[i] = identity[i]
    BY <1>0, <1>1, IdentityStep DEF IdentitiesKept
  <2>2. SoleWriter(i)
    BY <1>0, <2>1 DEF SoleWriter
  <2>3. cut[f] = None /\ f \in WorkspaceFiles
    BY <1>0, <1>1, <2>1, <2>2 DEF WholeInv, StaysWhole, WorkspaceFiles, RowTypeOK
  <2>4. ASSUME NEW w \in Workers, BeginWrite(w) PROVE Target(w) # f
    <3>1. pc[w] \in Looking \ {"find"}
      BY <2>4 DEF BeginWrite, Looking
    <3>2. Item(w) \in Leaves /\ read[w] \in ContentOf[Item(w)] /\ identity[Item(w)] = None
      BY <1>0, <3>1, LeafAtHand DEF WholeInv, OwnRead, Unresolved
    <3>. QED
      BY <1>1, <2>1, <2>2, <3>2 DEF SoleWriter, Target
  <2>5. ASSUME NEW w \in Workers, BeginWrite(w) \/ WriteContent(w) PROVE cut'[f] = None
    BY <1>0, <2>3, <2>4, <2>5, Writing
  <2>. QED
    BY <1>0, <2>3, <2>5, CutStep
<1>2. CASE identity[i] = None
  <2>1. PICK w \in Workers : Assign(w)
    BY <1>0, <1>2, IdentityStep
  <2>2. i = Item(w) /\ identity'[i] = read[w] /\ pc[w] = "assign" /\ UNCHANGED cut
    BY <1>0, <1>2, <2>1 DEF Assign, RowTypeOK, groupVars
  <2>3. SoleTarget(w)
    BY <1>0, <2>2 DEF SoleWriter, SoleTarget
  <2>. QED
    BY <2>2, <2>3 DEF WholeInv, WritesWhole, Target
<1>. QED
  BY <1>1, <1>2

\* SuccessIsComplete: what the attempts record as a success of a file or of an
\* archive is complete, however often its walk was stopped and taken up again; and
\* an eligible row's bytes are in the workspace, whole unless others write the same
\* file.
THEOREM SuccessHolds == Spec => []SuccessIsComplete
<1>1. Init => CutsKnown /\ IdentityHasRow /\ StaysWhole
  BY RowsAssumption DEF Init, CutsKnown, IdentityHasRow, StaysWhole, WorkspaceFiles, Items, Roots
<1>2. Init => \A w \in Workers : OwnRead(w) /\ Unresolved(w) /\ WritesWhole(w)
  BY DEF Init, OwnRead, Unresolved, WritesWhole, Looking
<1>. DEFINE Rest == /\ CutsKnown /\ IdentityHasRow /\ StaysWhole
                    /\ \A w \in Workers : OwnRead(w) /\ Unresolved(w) /\ WritesWhole(w)
<1>3. ClaimInv /\ CompleteInv /\ Rest /\ [Next]_vars => Rest'
  <2>. SUFFICES ASSUME WholeInv, [Next]_vars PROVE Rest'
    BY DEF WholeInv
  <2>1. \A w \in Workers : OwnRead(w)' /\ Unresolved(w)' /\ WritesWhole(w)'
    BY OwnReadStep, UnresolvedStep, WritesStep
  <2>. QED
    BY <2>1, CutsStep, HasRowStep, StaysWholeStep
<1>4. Init => Rest
  BY <1>1, <1>2
<1>5. CompleteInv /\ Rest => SuccessIsComplete
  <2>. SUFFICES ASSUME CompleteInv, Rest, NEW i \in Items, identity[i] # None,
                       Eligibility[i] = "ELIGIBLE", cut[<<identity[i], Suffix[i]>>] # None
                PROVE  BeingWritten(<<identity[i], Suffix[i]>>) \/ BrokenOff
    BY DEF CompleteInv, FilesThere, StaysWhole, SuccessIsComplete, AssignedHasContent
  <2>. DEFINE f == <<identity[i], Suffix[i]>>
  <2>1. f \in WorkspaceFiles /\ cut[f] \in Workers
    BY DEF CompleteInv, TypeInv, TypeOK, RowTypeOK, GroupTypeOK, WorkspaceFiles, Items, Roots
  <2>. QED
    BY <2>1 DEF CutsKnown, BeingWritten
<1>. HIDE DEF Rest
<1>. QED
  BY <1>3, <1>4, <1>5, ClaimInvariance, CompleteInvariance, PTL DEF Spec
-----------------------------------------------------------------------------
(* Completion                                                              *)

\* The counts of a report never run ahead of the rows: what was over when it
\* was counted is over now.
CountsLag ==
    /\ report = "successful"
       => terminal <= Cardinality({i \in scenario.roots \ CountedAsArchive : TerminalRoot(i)})
    /\ report = "decide" => terminal <= Cardinality({i \in scenario.roots : TerminalRoot(i)})

ReportInv == TypeInv /\ CountsLag

\* A group that has come to its end stays there.
LEMMA GroupsStay ==
    ASSUME TypeInv, [Next]_vars, NEW g \in Groups, groupState[g] \in TerminalStates
    PROVE  groupState'[g] = groupState[g]
<1>0. groupState \in [Groups -> GroupStates]
  BY DEF TypeInv, TypeOK, GroupTypeOK
<1>1. ASSUME NEW w \in Workers, Create(w) PROVE groupState'[g] = groupState[g]
  BY <1>0, <1>1 DEF Create, TerminalStates
<1>2. ASSUME NEW h \in Groups, SettleGroup(h) PROVE groupState'[g] = groupState[g]
  BY <1>0, <1>2 DEF SettleGroup, TerminalStates
<1>3. ASSUME NEW w \in Workers,
             ReadClaim(w) \/ ReadFile(w) \/ Find(w) \/ BeginWrite(w) \/ WriteContent(w) \/
             Assign(w) \/ Admit(w)
             \/ Extract(w) \/ Visit(w) \/ Insert(w) \/ Settle(w) \/ GiveBack(w) \/ Record(w)
             \/ Release(w) \/ Crash(w) \/ \E i \in scenario.roots : Claim(w, i)
      PROVE  UNCHANGED groupState
  BY <1>3 DEF ReadClaim, ReadFile, Find, BeginWrite, WriteContent, CannotWrite, Assign, Admit,
     Extract, Visit,
      Insert, Settle, GiveBack, Record, Release, Crash, Claim, groupVars
<1>4. ASSUME Reconcile \/ (\E i \in Roots : LeaseExpires(i)) \/ (\E h \in Groups : AttemptGroup(h))
             \/ (\E s \in BatchStatus : ControlBatch(s)) \/ UNCHANGED vars
      PROVE  UNCHANGED groupState
  BY <1>4 DEF Reconcile, ReportAttempted, ReportTerminal, ReportSuccessful, Decide,
      LeaseExpires, AttemptGroup, ControlBatch, vars, groupVars
<1>. QED
  BY <1>1, <1>2, <1>3, <1>4 DEF Next, WorkerStep

\* A root that is over stays over.
LEMMA TerminalStays ==
    ASSUME TypeInv, [Next]_vars, NEW i \in Roots, TerminalRoot(i)
    PROVE  TerminalRoot(i)'
<1>0. /\ IdentitiesKept /\ attempts \subseteq attempts'
      /\ identity \in [Roots \cup Members -> Groups \cup {None}]
  BY IdentityStep, RowsGrow DEF TypeInv, TypeOK, RowTypeOK
<1>1. CASE i \in CountedAsArchive
  BY <1>0, <1>1 DEF TerminalRoot, Processed
<1>2. CASE i \notin CountedAsArchive
  <2>1. identity[i] \in Groups /\ groupState[identity[i]] \in TerminalStates
    BY <1>0, <1>2 DEF TerminalRoot
  <2>2. identity'[i] = identity[i] /\ groupState'[identity[i]] = groupState[identity[i]]
    BY <1>0, <2>1, GroupsStay, RowsAssumption DEF IdentitiesKept
  <2>. QED
    BY <1>2, <2>1, <2>2, RowsAssumption DEF TerminalRoot
<1>. QED
  BY <1>1, <1>2

\* Each count is taken of what is over at the time, and the sum of both lags too.
LEMMA CountsStep == ReportInv /\ [Next]_vars => CountsLag'
<1>. SUFFICES ASSUME ReportInv, [Next]_vars PROVE CountsLag'
  OBVIOUS
<1>. DEFINE files == {i \in scenario.roots \ CountedAsArchive : TerminalRoot(i)}
            archives == {i \in scenario.roots \cap CountedAsArchive : TerminalRoot(i)}
            all == {i \in scenario.roots : TerminalRoot(i)}
<1>0. /\ TypeInv /\ BatchTypeOK /\ scenario \in Scenarios /\ UNCHANGED scenario
      /\ scenario.roots \subseteq Roots /\ IsFiniteSet(scenario.roots)
      /\ report = "successful" => terminal <= Cardinality(files)
      /\ report = "decide" => terminal <= Cardinality(all)
  BY ScopeAssumption, RowsAssumption, FS_Subset
     DEF ReportInv, TypeInv, TypeOK, CountsLag, Next, vars
<1>1. /\ IsFiniteSet(files) /\ IsFiniteSet(archives) /\ IsFiniteSet(all)
      /\ files \cap archives = {} /\ files \cup archives = all
      /\ all' \subseteq scenario.roots /\ files' \subseteq scenario.roots
      /\ IsFiniteSet(all') /\ IsFiniteSet(files')
  <2>1. all' \subseteq scenario.roots /\ files' \subseteq scenario.roots
    BY <1>0
  <2>. QED
    BY <1>0, <2>1, FS_Subset
<1>2. files \subseteq files' /\ all \subseteq all'
  BY <1>0, TerminalStays
<1>. HIDE DEF files, archives, all
<1>3. /\ Cardinality(files) \in Nat /\ Cardinality(archives) \in Nat /\ Cardinality(all) \in Nat
      /\ Cardinality(files') \in Nat /\ Cardinality(all') \in Nat
      /\ Cardinality(files) <= Cardinality(files') /\ Cardinality(all) <= Cardinality(all')
      /\ Cardinality(all) = Cardinality(files) + Cardinality(archives)
  <2>1. Cardinality(all) = Cardinality(files) + Cardinality(archives) - Cardinality({})
    BY <1>1, FS_Union
  <2>. QED
    BY <1>1, <1>2, <2>1, FS_CardinalityType, FS_Subset, FS_EmptySet
<1>. SUFFICES /\ report' = "successful" => terminal' <= Cardinality(files')
              /\ report' = "decide" => terminal' <= Cardinality(all')
  BY DEF CountsLag, files, all
<1>4. CASE ReportAttempted \/ Decide
  BY <1>0, <1>4 DEF ReportAttempted, Decide
<1>5. CASE ReportTerminal
  BY <1>0, <1>3, <1>5 DEF ReportTerminal, files
<1>6. CASE ReportSuccessful
  <2>1. terminal' = terminal + Cardinality(archives) /\ report = "successful" /\ report' = "decide"
    BY <1>6 DEF ReportSuccessful, archives
  <2>. QED
    BY <1>0, <1>3, <2>1 DEF BatchTypeOK
<1>7. CASE UNCHANGED reportVars
  BY <1>0, <1>3, <1>7 DEF BatchTypeOK, reportVars
<1>8. ASSUME NEW w \in Workers, MyStep(w) PROVE UNCHANGED reportVars
  BY <1>8 DEF MyStep, WorkerStep, ReadClaim, ReadFile, Find, Create, BeginWrite, WriteContent,
     CannotWrite,
      Assign, Admit, Extract, Visit, Insert, Settle, GiveBack, Record, Release, Crash,
      Claim
<1>9. ASSUME (\E i \in Roots : LeaseExpires(i))
             \/ (\E g \in Groups : AttemptGroup(g) \/ SettleGroup(g))
             \/ (\E s \in BatchStatus : ControlBatch(s)) \/ UNCHANGED vars
      PROVE  UNCHANGED reportVars
  BY <1>9 DEF LeaseExpires, AttemptGroup, SettleGroup, ControlBatch, vars
<1>. QED
  BY <1>4, <1>5, <1>6, <1>7, <1>8, <1>9 DEF Next, MyStep, Reconcile

\* The reconciler completes a batch whose terminal count is the number of its
\* roots, and as the count lags there is no root that is not over.
LEMMA CompletedIsOver ==
    ASSUME ReportInv, [Next]_vars, status # "COMPLETED", status' = "COMPLETED",
           NEW i \in scenario.roots
    PROVE  TerminalRoot(i)
<1>. DEFINE all == {j \in scenario.roots : TerminalRoot(j)}
<1>0. /\ BatchTypeOK /\ IsFiniteSet(scenario.roots) /\ all \subseteq scenario.roots
      /\ report = "decide" => terminal <= Cardinality(all)
  BY ScopeAssumption, RowsAssumption, FS_Subset DEF ReportInv, TypeInv, TypeOK, CountsLag
<1>1. Decide
  <2>1. ASSUME NEW w \in Workers, MyStep(w) PROVE UNCHANGED status
    BY <2>1 DEF MyStep, WorkerStep, ReadClaim, ReadFile, Find, Create, BeginWrite, WriteContent,
       CannotWrite,
        Assign, Admit, Extract, Visit, Insert, Settle, GiveBack, Record, Release, Crash,
        Claim, batchVars
  <2>2. ASSUME (\E j \in Roots : LeaseExpires(j)) \/ ReportAttempted \/ ReportTerminal
               \/ ReportSuccessful \/ (\E g \in Groups : AttemptGroup(g) \/ SettleGroup(g))
               \/ UNCHANGED vars
        PROVE  UNCHANGED status
    BY <2>2 DEF LeaseExpires, ReportAttempted, ReportTerminal, ReportSuccessful,
        AttemptGroup, SettleGroup, vars, batchVars
  <2>3. ASSUME NEW s \in BatchStatus, ControlBatch(s) PROVE status' # "COMPLETED"
    BY <2>3 DEF ControlBatch
  <2>. QED
    BY <2>1, <2>2, <2>3 DEF Next, MyStep, Reconcile
<1>2. report = "decide" /\ attempted = Cardinality(scenario.roots) /\ terminal = attempted
  BY <1>1 DEF Decide, Exhausted, Selected
<1>3. Cardinality(all) >= Cardinality(scenario.roots)
  BY <1>0, <1>2
<1>4. all = scenario.roots
  BY <1>0, <1>3, FS_Subset, FS_CardinalityType
<1>. QED
  BY <1>4

\* A batch is completed only when all work on its roots is over, where the
\* category counts the same roots as archives that the claims take for archives.
THEOREM CompletionHolds ==
    ASSUME CountedAsArchive \subseteq Archives
    PROVE  Spec => CompletionSound
<1>1. Init => ReportInv
  BY TypeInit DEF Init, ReportInv, CountsLag
<1>2. ReportInv /\ [Next]_vars => ReportInv'
  BY TypeStep, CountsStep DEF ReportInv
<1>3. ReportInv /\ [Next]_vars
      => [status # "COMPLETED" /\ status' = "COMPLETED" => \A i \in scenario.roots : Over(i)]_vars
  BY CompletedIsOver, CategoryAssumption DEF Over, TerminalRoot
<1>. QED
  BY <1>1, <1>2, <1>3, PTL DEF Spec, CompletionSound
-----------------------------------------------------------------------------
(* The ledger of extracted bytes                                           *)

\* A worker holds what its archive declares from admission to settlement.
HeldOK ==
    \A w \in Workers :
        held[w] = IF pc[w] \in Reserving /\ inst[w] \in Archives /\ scenario.envelope # None
                  THEN Declared[inst[w]] ELSE 0

\* Nobody else inserts the row that a worker is about to insert, and nobody
\* starts on an archive that was processed, where nobody outlasts a lease.
Unwritten ==
    scenario.stalls = {} =>
        \A w \in Workers : pc[w] = "insert" => Walk[inst[w]][at[w]] \notin rows

Once ==
    scenario.stalls = {} =>
        \A w \in Workers : inst[w] \in Archives /\ pc[w] # "release" => ~Processed(inst[w])

\* An archive has its share of the ledger: what it came to when it is settled,
\* and what it declares while it is reserved.
IsSettled(a) ==
    \/ Processed(a)
    \/ \E w \in Workers : inst[w] = a /\ pc[w] = "record" /\ result[w] = "SUCCEEDED"

IsReserved(a) == \E w \in Workers : inst[w] = a /\ pc[w] \in Reserving

Share ==
    [a \in Archives \cap scenario.roots |->
        IF IsSettled(a) THEN Actual[a] ELSE IF IsReserved(a) THEN Declared[a] ELSE 0]

SharesAddUp ==
    scenario.stalls = {} /\ crashes = 0 /\ scenario.envelope # None
    => settled + BytesHeld = SumFunctionOnSet(Share, Archives \cap scenario.roots)

Capped == scenario.envelope # None => extractedBytes <= scenario.envelope

LedgerInv ==
    ClaimInv /\ HeldOK /\ Unwritten /\ Once /\ SharesAddUp /\ Capped /\ BytesAccounted

\* What the proofs below know of a state.
LEMMA Known ==
    ASSUME LedgerInv
    PROVE  /\ TypeInv /\ WorkerTypeOK /\ RowTypeOK /\ BatchTypeOK /\ LocalsOK
           /\ scenario \in Scenarios /\ scenario.roots \subseteq Roots
           /\ scenario.envelope \in Nat \cup {None}
           /\ None \notin Archives /\ None \notin Files /\ Files \cap Archives = {}
           /\ IsFiniteSet(Workers) /\ IsFiniteSet(Archives \cap scenario.roots)
           /\ Declared \in [Archives -> Nat] /\ Actual \in [Archives -> Nat]
<1>1. IsFiniteSet(Archives \cap scenario.roots)
  BY RowsAssumption, FS_Subset DEF Roots
<1>. QED
  BY <1>1, RowsAssumption, ScopeAssumption, SizesAssumption
     DEF LedgerInv, ClaimInv, TypeInv, TypeOK, Roots

\* Where nobody outlasts a lease, two workers are at different rows.
LEMMA Apart ==
    ASSUME ClaimInv, scenario.stalls = {}, NEW v \in Workers, NEW w \in Workers \ {v},
           inst[v] # None
    PROVE  inst[v] # inst[w]
BY DEF ClaimInv, Alone

\* A reservation follows the steps of its worker.
LEMMA HeldStep == LedgerInv /\ [Next]_vars => HeldOK'
<1>. SUFFICES ASSUME LedgerInv, [Next]_vars, NEW v \in Workers
              PROVE  held'[v] = IF /\ pc'[v] \in Reserving /\ inst'[v] \in Archives
                                   /\ scenario.envelope # None
                                THEN Declared[inst'[v]] ELSE 0
  BY DEF HeldOK, Next, vars
<1>. USE DEF Goto, FailArchive, WorkerTypeOK, Reserving, Walking, Looking
<1>0. /\ WorkerTypeOK /\ LocalOK(v) /\ TypeInv /\ None \notin Archives /\ Files \cap Archives = {}
      /\ held[v] = IF pc[v] \in Reserving /\ inst[v] \in Archives /\ scenario.envelope # None
                   THEN Declared[inst[v]] ELSE 0
  BY Known DEF LocalsOK, LedgerInv, HeldOK
<1>1. CASE Same(v)
  BY <1>0, <1>1 DEF Same
<1>2. CASE Finish(v)
  BY <1>0, <1>2, Finished
<1>3. CASE \E i \in scenario.roots : Claim(v, i)
  BY <1>0, <1>3 DEF Claim
<1>4. CASE Admit(v)
  BY <1>0, <1>4 DEF Admit, LocalOK
<1>5. CASE Settle(v) \/ GiveBack(v)
  BY <1>0, <1>2, <1>5 DEF Settle, GiveBack
<1>6. CASE Visit(v) \/ Insert(v)
  BY <1>0, <1>2, <1>6 DEF Visit, Insert, Enter
<1>7. CASE Find(v) \/ Create(v) \/ BeginWrite(v) \/ WriteContent(v) \/ Assign(v)
  BY <1>0, <1>7 DEF Find, Create, BeginWrite, WriteContent, CannotWrite, Assign, AfterGroup,
     localVars, LocalOK
<1>8. CASE ReadClaim(v) \/ ReadFile(v) \/ Extract(v) \/ Record(v) \/ Release(v) \/ Crash(v)
  BY <1>0, <1>2, <1>8 DEF ReadClaim, ReadFile, Extract, Record, Release, Crash,
      localVars, LocalOK
<1>9. Same(v) \/ MyStep(v)
  BY <1>0, OnlyMine, OthersKeepWorkers DEF Next, MyStep, OtherSteps, Same, localVars
<1>. QED
  BY <1>1, <1>3, <1>4, <1>5, <1>6, <1>7, <1>8, <1>9 DEF MyStep, WorkerStep

\* Only the holder of an archive inserts rows of its members.
LEMMA UnwrittenStep == LedgerInv /\ [Next]_vars => Unwritten'
<1>. SUFFICES ASSUME LedgerInv, [Next]_vars, NEW v \in Workers, scenario.stalls = {},
                     pc'[v] = "insert"
              PROVE  Walk[inst'[v]][at'[v]] \notin rows'
  BY DEF Unwritten, Next, vars
<1>. USE DEF Goto, FailArchive, WorkerTypeOK
<1>0. /\ WorkerTypeOK /\ TypeInv
      /\ pc[v] = "insert" => Walk[inst[v]][at[v]] \notin rows
  BY Known DEF LedgerInv, Unwritten
<1>1. CASE Same(v)
  <2>. DEFINE m == Walk[inst[v]][at[v]]
  <2>1. m \notin rows /\ inst[v] \in Archives /\ at[v] \in DOMAIN Walk[inst[v]] /\ inst[v] # None
    BY <1>0, <1>1, Known DEF Same, LocalsOK, LocalOK
  <2>2. ASSUME NEW w \in Workers, Insert(w), rows' # rows PROVE m \notin rows'
    <3>1. /\ inst[w] \in Archives /\ at[w] \in DOMAIN Walk[inst[w]]
          /\ rows' = rows \cup {Walk[inst[w]][at[w]]} /\ Enter(w, Walk[inst[w]][at[w]])
      BY <2>2, Known DEF Insert, LocalsOK, LocalOK
    <3>2. w # v
      BY <1>0, <1>1, <3>1 DEF Enter, Same
    <3>3. inst[w] # inst[v]
      BY <2>1, <3>2, Apart DEF LedgerInv
    <3>4. m \in Range(Walk[inst[v]]) /\ Walk[inst[w]][at[w]] \in Range(Walk[inst[w]])
      BY <2>1, <3>1 DEF Range
    <3>. QED
      BY <2>1, <3>1, <3>3, <3>4, WalkAssumption
  <2>3. rows' = rows \/ \E w \in Workers : Insert(w)
    <3>1. ASSUME NEW w \in Workers,
                 ReadClaim(w) \/ ReadFile(w) \/ Find(w) \/ Create(w) \/ BeginWrite(w) \/
                 WriteContent(w) \/ Assign(w)
                 \/ Admit(w) \/ Extract(w) \/ Visit(w) \/ Settle(w) \/ GiveBack(w) \/ Record(w)
                 \/ Release(w) \/ Crash(w) \/ \E j \in scenario.roots : Claim(w, j)
          PROVE  UNCHANGED rows
      BY <3>1 DEF ReadClaim, ReadFile, Find, Create, BeginWrite, WriteContent, CannotWrite,
         Assign, Admit,
          Extract, Visit, Settle, GiveBack, Record, Release, Crash, Claim
    <3>2. ASSUME OtherSteps \/ UNCHANGED vars PROVE UNCHANGED rows
      BY <3>2 DEF OtherSteps, Reconcile, ReportAttempted, ReportTerminal,
          ReportSuccessful, Decide, LeaseExpires, AttemptGroup, SettleGroup,
          ControlBatch, vars
    <3>. QED
      BY <3>1, <3>2 DEF Next, WorkerStep, OtherSteps
  <2>. QED
    BY <1>1, <2>1, <2>2, <2>3 DEF Same
<1>2. CASE Visit(v)
  BY <1>0, <1>2 DEF Visit, Enter
<1>3. CASE Insert(v)
  BY <1>0, <1>3, Finished DEF Insert, Enter
<1>4. ASSUME ReadClaim(v) \/ ReadFile(v) \/ Find(v) \/ Create(v) \/ BeginWrite(v) \/
             WriteContent(v) \/ Assign(v)
             \/ Admit(v) \/ Extract(v) \/ Settle(v) \/ GiveBack(v) \/ Record(v) \/ Release(v)
             \/ Crash(v) \/ \E j \in scenario.roots : Claim(v, j)
      PROVE  FALSE
  BY <1>0, <1>4, Finished DEF ReadClaim, ReadFile, Find, Create, BeginWrite, WriteContent,
     CannotWrite, Assign,
      AfterGroup, Admit, Extract, Settle, GiveBack, Record, Release, Crash, Claim
<1>5. Same(v) \/ MyStep(v)
  BY <1>0, OnlyMine, OthersKeepWorkers DEF Next, MyStep, OtherSteps, Same, localVars
<1>. QED
  BY <1>1, <1>2, <1>3, <1>4, <1>5 DEF MyStep, WorkerStep

\* Only the holder of an archive records that it was processed.
LEMMA OnceStep == LedgerInv /\ [Next]_vars => Once'
<1>. SUFFICES ASSUME LedgerInv, [Next]_vars, NEW v \in Workers, scenario.stalls = {},
                     inst'[v] \in Archives, pc'[v] # "release", Processed(inst[v])'
              PROVE  FALSE
  BY DEF Once, Next, vars
<1>. USE DEF Goto, FailArchive, WorkerTypeOK
<1>0. /\ WorkerTypeOK /\ TypeInv /\ ClaimInv /\ None \notin Archives
      /\ inst[v] \in Archives /\ pc[v] # "release" => ~Processed(inst[v])
  BY Known DEF LedgerInv, Once
<1>1. CASE Same(v)
  <2>1. ~Processed(inst[v]) /\ Processed(inst[v])' /\ inst[v] \in Archives
    BY <1>0, <1>1 DEF Same, Processed
  <2>2. PICK w \in Workers : Record(w)
    BY <1>1, <2>1, AttemptsStep DEF Processed, Same
  <2>3. inst[w] = inst[v]
    BY <1>1, <2>1, <2>2 DEF Record, Processed, Same
  <2>4. w # v
    BY <1>0, <1>1, <2>2 DEF Record, Same
  <2>. QED
    BY <1>0, <2>1, <2>3, <2>4, Apart
<1>2. CASE Finish(v)
  BY <1>0, <1>2, Finished
<1>3. CASE \E i \in scenario.roots : Claim(v, i)
  BY <1>0, <1>3 DEF Claim, Claimable, Processed
<1>4. CASE Record(v)
  BY <1>0, <1>4 DEF Record
<1>5. ASSUME ReadClaim(v) \/ ReadFile(v) \/ Find(v) \/ Create(v) \/ BeginWrite(v) \/
             WriteContent(v) \/ Assign(v)
             \/ Admit(v) \/ Extract(v) \/ Visit(v) \/ Insert(v) \/ Settle(v) \/ GiveBack(v)
             \/ Release(v) \/ Crash(v)
      PROVE  (UNCHANGED <<attempts, inst>> /\ pc[v] # "release") \/ Finish(v)
  BY <1>5 DEF ReadClaim, ReadFile, Find, Create, BeginWrite, WriteContent, CannotWrite, Assign,
     Admit, Extract,
      Visit, Insert, Settle, GiveBack, Release, Crash, localVars
<1>6. CASE UNCHANGED <<attempts, inst>> /\ pc[v] # "release"
  BY <1>0, <1>6 DEF Processed
<1>7. Same(v) \/ MyStep(v)
  BY <1>0, OnlyMine, OthersKeepWorkers DEF Next, MyStep, OtherSteps, Same, localVars
<1>. QED
  BY <1>1, <1>2, <1>3, <1>4, <1>5, <1>6, <1>7 DEF MyStep, WorkerStep

\* The reservations change with the worker that makes a step.
LEMMA HeldSum ==
    ASSUME LedgerInv, [Next]_vars
    PROVE  /\ BytesHeld \in Nat /\ BytesHeld' \in Nat
           /\ \A w \in Workers : held[w] \in Nat /\ held[w] <= BytesHeld
           /\ \A w \in Workers : MyStep(w) => BytesHeld' = BytesHeld - held[w] + held'[w]
           /\ OtherSteps \/ UNCHANGED vars => BytesHeld' = BytesHeld
<1>1. /\ IsFiniteSet(Workers)
      /\ \A w \in Workers : held[w] \in Nat /\ held'[w] \in Nat
  <2>1. TypeInv'
    BY Known, TypeStep
  <2>. QED
    BY <2>1, Known DEF TypeInv, TypeOK, WorkerTypeOK
<1>2. BytesHeld \in Nat /\ BytesHeld' \in Nat
  BY <1>1, SumPart DEF BytesHeld
<1>3. ASSUME NEW w \in Workers PROVE held[w] <= BytesHeld
  <2>1. BytesHeld = held[w] + SumFunctionOnSet(held, Workers \ {w})
    BY <1>1, SumRemove DEF BytesHeld
  <2>2. SumFunctionOnSet(held, Workers \ {w}) \in Nat
    BY <1>1, SumPart
  <2>. QED
    BY <1>1, <2>1, <2>2
<1>4. ASSUME NEW w \in Workers, MyStep(w) PROVE BytesHeld' = BytesHeld - held[w] + held'[w]
  <2>1. \A v \in Workers \ {w} : held[v] = held'[v]
    BY <1>4, Known, OnlyMine DEF Same
  <2>. QED
    BY <1>1, <2>1, SumChange DEF BytesHeld
<1>5. OtherSteps \/ UNCHANGED vars => BytesHeld' = BytesHeld
  BY OthersKeepWorkers DEF BytesHeld, localVars
<1>. QED
  BY <1>1, <1>2, <1>3, <1>4, <1>5

\* The shares are sizes of archives, and none exceeds what its archive may take.
LEMMA ShareType ==
    ASSUME LedgerInv
    PROVE  \A a \in Archives \cap scenario.roots :
               Share[a] \in Nat /\ Room[a] \in Nat /\ Share[a] <= Room[a]
BY Known DEF Share, Room

\* The share of a worker's archive, by what the worker knows.
LEMMA ShareNow ==
    ASSUME LedgerInv, scenario.stalls = {}, NEW w \in Workers, inst[w] \in Archives
    PROVE  /\ inst[w] \in Archives \cap scenario.roots
           /\ Share[inst[w]] =
                  IF Processed(inst[w]) \/ (pc[w] = "record" /\ result[w] = "SUCCEEDED")
                  THEN Actual[inst[w]]
                  ELSE IF pc[w] \in Reserving THEN Declared[inst[w]] ELSE 0
<1>1. inst[w] \in Archives \cap scenario.roots
  BY Known DEF LocalsOK, LocalOK
<1>2. \A v \in Workers : inst[v] = inst[w] => v = w
  BY <1>1, Known, Apart DEF LedgerInv
<1>. QED
  BY <1>1, <1>2 DEF Share, IsSettled, IsReserved

\* What one step of a worker does to the ledger and to the share of its archive.
Moves(w, a, share) ==
    /\ inst'[w] \in {a, None}
    /\ share = IF Processed(a)' \/ (inst'[w] = a /\ pc'[w] = "record" /\ result'[w] = "SUCCEEDED")
               THEN Actual[a]
               ELSE IF inst'[w] = a /\ pc'[w] \in Reserving THEN Declared[a] ELSE 0

\* A step of a worker at an archive changes both sides of SharesAddUp by as much.
LEMMA Balance ==
    ASSUME LedgerInv, [Next]_vars, scenario.stalls = {}, scenario.envelope # None, crashes' = 0,
           NEW w \in Workers, WorkerStep(w), NEW a \in Archives, inst[w] = a, NEW share,
           Moves(w, a, share)
    PROVE  share \in Nat /\ settled' + held'[w] - share = settled + held[w] - Share[a]
<1>. USE DEF Goto, FailArchive, WorkerTypeOK, Reserving, Walking, Looking, Moves
<1>0. /\ WorkerTypeOK /\ LocalOK(w) /\ TypeInv /\ a # None /\ a \notin Files
      /\ Declared[a] \in Nat /\ Actual[a] \in Nat /\ settled \in Nat
      /\ held[w] = IF pc[w] \in Reserving THEN Declared[a] ELSE 0
      /\ pc[w] # "release" => ~Processed(a)
      /\ Share[a] = IF Processed(a) \/ (pc[w] = "record" /\ result[w] = "SUCCEEDED")
                    THEN Actual[a]
                    ELSE IF pc[w] \in Reserving THEN Declared[a] ELSE 0
  BY Known, ShareNow DEF LocalsOK, LedgerInv, HeldOK, Once, BatchTypeOK
<1>. HIDE DEF Share
<1>1. share \in Nat
  BY <1>0
<1>2. CASE Finish(w) /\ UNCHANGED <<settled, attempts>> /\ pc[w] # "record"
  BY <1>0, <1>2, Finished DEF Processed
<1>3. CASE Admit(w)
  BY <1>0, <1>3 DEF Admit, Processed
<1>4. CASE Settle(w)
  BY <1>0, <1>2, <1>4 DEF Settle, Processed
<1>5. CASE GiveBack(w)
  BY <1>0, <1>5 DEF GiveBack, Processed, LocalOK
<1>6. CASE Record(w)
  BY <1>0, <1>6 DEF Record, Processed, localVars, batchVars
<1>7. CASE /\ UNCHANGED <<settled, attempts, inst, held>>
           /\ pc[w] \in Reserving /\ pc'[w] \in Reserving
  BY <1>0, <1>7 DEF Processed
<1>8. ASSUME Find(w) \/ Create(w) \/ BeginWrite(w) \/ WriteContent(w) \/ Assign(w) \/
             Extract(w) \/ Visit(w)
      PROVE  /\ UNCHANGED <<settled, attempts, inst, held>>
             /\ pc[w] \in Reserving /\ pc'[w] \in Reserving
  BY <1>0, <1>8 DEF Find, Create, BeginWrite, WriteContent, CannotWrite, Assign, AfterGroup,
     Extract, Visit, Enter,
     localVars, batchVars
<1>9. CASE Insert(w)
  BY <1>0, <1>2, <1>7, <1>9 DEF Insert, Enter, batchVars
<1>10. CASE ReadClaim(w)
  BY <1>0, <1>10 DEF ReadClaim, Processed, batchVars
<1>11. CASE ReadFile(w)
  BY <1>0, <1>11 DEF ReadFile, LocalOK
<1>12. CASE Release(w)
  BY <1>0, <1>2, <1>12 DEF Release, batchVars
<1>. QED
  BY <1>1, <1>3, <1>4, <1>5, <1>6, <1>7, <1>8, <1>9, <1>10, <1>11, <1>12 DEF WorkerStep

\* A step changes no share but that of the archive its worker is at.
LEMMA SharesOfOthers ==
    ASSUME LedgerInv, [Next]_vars, scenario.stalls = {}, crashes' = 0,
           NEW b \in Archives \cap scenario.roots,
           \A w \in Workers : inst[w] = b => Same(w)
    PROVE  Share'[b] = Share[b]
<1>. USE DEF WorkerTypeOK
<1>0. /\ WorkerTypeOK /\ TypeInv /\ UNCHANGED scenario /\ b # None /\ b \in Archives
      /\ \A w \in Workers : ~Crash(w)
  BY Known DEF Next, vars, Crash, WorkerTypeOK, TypeInv, TypeOK
<1>1. Processed(b)' <=> Processed(b)
  <2>1. CASE ~UNCHANGED attempts
    <3>1. PICK w \in Workers : Record(w)
      BY <2>1, AttemptsStep
    <3>2. inst[w] # b
      BY <1>0, <3>1 DEF Record, Goto, Same
    <3>. QED
      BY <3>1, <3>2 DEF Record, Processed
  <2>. QED
    BY <2>1 DEF Processed
<1>2. ASSUME NEW v \in Workers
      PROVE  /\ inst'[v] = b => (inst[v] = b /\ Same(v)) \/ pc'[v] = "claimed"
             /\ inst[v] = b => Same(v)
  <2>1. Same(v) \/ MyStep(v)
    BY <1>0, OnlyMine, OthersKeepWorkers DEF Next, MyStep, OtherSteps, Same, localVars
  <2>2. CASE Same(v)
    BY <2>2 DEF Same
  <2>3. CASE WorkerStep(v)
    <3>1. inst'[v] \in {inst[v], None}
      BY <1>0, <2>3, Finished DEF WorkerStep, ReadClaim, ReadFile, Find, Create,
          BeginWrite, WriteContent, CannotWrite, Assign, Admit, Extract, Visit, Insert, Settle,
          GiveBack, Record,
          Release, localVars
    <3>. QED
      BY <1>0, <2>3, <3>1
  <2>4. ASSUME NEW i \in scenario.roots, Claim(v, i) PROVE pc'[v] = "claimed" /\ inst[v] = None
    BY <1>0, <2>4, Known DEF Claim, Goto, LocalsOK, LocalOK
  <2>. QED
    BY <1>0, <2>1, <2>2, <2>3, <2>4 DEF MyStep
<1>3. IsSettled(b)' <=> IsSettled(b)
  BY <1>1, <1>2 DEF IsSettled, Same
<1>4. IsReserved(b)' <=> IsReserved(b)
  BY <1>2 DEF IsReserved, Same, Reserving, Walking, Looking
<1>. QED
  BY <1>0, <1>3, <1>4 DEF Share

\* The settled and the reserved bytes stay the sum of the shares.
LEMMA SharesStep == LedgerInv /\ [Next]_vars => SharesAddUp'
<1>. DEFINE archives == Archives \cap scenario.roots
<1>. SUFFICES ASSUME LedgerInv, [Next]_vars, scenario.stalls = {}, crashes' = 0,
                     scenario.envelope # None
              PROVE  settled' + BytesHeld' = SumFunctionOnSet(Share', archives)
  BY DEF SharesAddUp, Next, vars
<1>0. /\ WorkerTypeOK /\ TypeInv /\ IsFiniteSet(archives) /\ UNCHANGED scenario
      /\ settled \in Nat /\ settled' \in Nat /\ BytesHeld \in Nat /\ BytesHeld' \in Nat
      /\ \A a \in archives : Share[a] \in Nat
      /\ \A w \in Workers : held[w] \in Nat /\ held'[w] \in Nat
  <2>1. TypeInv'
    BY Known, TypeStep
  <2>. QED
    BY <2>1, Known, HeldSum, ShareType
       DEF Next, vars, TypeInv, TypeOK, BatchTypeOK, WorkerTypeOK
<1>1. crashes = 0 /\ \A w \in Workers : ~Crash(w)
  <2>1. crashes \in Nat /\ \A w \in Workers : Crash(w) => crashes' = crashes + 1
    BY <1>0 DEF Crash, WorkerTypeOK
  <2>2. ASSUME NEW w \in Workers, WorkerStep(w) \/ (\E i \in scenario.roots : Claim(w, i))
        PROVE  UNCHANGED crashes
    BY <2>2 DEF WorkerStep, ReadClaim, ReadFile, Find, Create, BeginWrite, WriteContent,
       CannotWrite, Assign, Admit,
       Extract, Visit, Insert, Settle, GiveBack, Record, Release, Claim
  <2>. QED
    BY <2>1, <2>2, OthersKeepWorkers DEF Next, OtherSteps
<1>2. settled + BytesHeld = SumFunctionOnSet(Share, archives)
  BY <1>1 DEF LedgerInv, SharesAddUp
<1>3. CASE /\ \A w \in Workers : inst[w] \in archives => Same(w)
           /\ UNCHANGED settled /\ BytesHeld' = BytesHeld
  <2>1. \A b \in archives : Share[b] = Share'[b]
    BY <1>3, SharesOfOthers
  <2>2. SumFunctionOnSet(Share, archives) = SumFunctionOnSet(Share', archives)
    BY <1>0, <2>1, SumSame
  <2>. QED
    BY <1>2, <1>3, <2>2
<1>4. ASSUME NEW w \in Workers, WorkerStep(w), inst[w] \in Archives
      PROVE  settled' + BytesHeld' = SumFunctionOnSet(Share', archives)
  <2>0. PICK a \in Archives : a = inst[w]
    BY <1>4
  <2>. DEFINE share == Share'[a]
  <2>1. a \in archives /\ \A v \in Workers \ {w} : inst[v] # a
    BY <1>4, <2>0, Known, Apart DEF LedgerInv, LocalsOK, LocalOK
  <2>2. \A v \in Workers \ {w} : Same(v) /\ inst'[v] # a
    BY <1>0, <1>4, <2>1, OnlyMine DEF MyStep, Same
  <2>3. Moves(w, a, share)
    <3>1. inst'[w] \in {a, None}
      BY <1>0, <1>4, <2>0, Finished DEF WorkerStep, ReadClaim, ReadFile, Find, Create,
          BeginWrite, WriteContent, CannotWrite, Assign, Admit, Extract, Visit, Insert, Settle,
          GiveBack, Record,
          Release, localVars
    <3>2. /\ IsSettled(a)' <=>
                Processed(a)' \/ (inst'[w] = a /\ pc'[w] = "record" /\ result'[w] = "SUCCEEDED")
          /\ IsReserved(a)' <=> inst'[w] = a /\ pc'[w] \in Reserving
      BY <2>2 DEF IsSettled, IsReserved, Reserving, Walking, Looking
    <3>3. share = IF IsSettled(a)' THEN Actual[a] ELSE IF IsReserved(a)' THEN Declared[a] ELSE 0
      BY <1>0, <2>1 DEF Share
    <3>. QED
      BY <3>1, <3>2, <3>3 DEF Moves
  <2>4. share \in Nat /\ settled' + held'[w] - share = settled + held[w] - Share[a]
    BY <1>4, <2>0, <2>3, Balance
  <2>5. \A b \in archives \ {a} : Share[b] = Share'[b]
    BY <2>0, <2>2, SharesOfOthers
  <2>6. \A b \in archives : Share[b] \in Int /\ Share'[b] \in Int
    BY <1>0, <2>4, <2>5
  <2>7. SumFunctionOnSet(Share', archives) = SumFunctionOnSet(Share, archives) - Share[a] + share
    BY <1>0, <2>1, <2>5, <2>6, SumChange
  <2>8. BytesHeld' = BytesHeld - held[w] + held'[w]
    BY <1>4, HeldSum DEF MyStep
  <2>9. Share[a] \in Nat
    BY <1>0, <2>1
  <2>. HIDE DEF share, archives
  <2>. QED
    BY <1>0, <1>2, <2>4, <2>7, <2>8, <2>9
<1>5. ASSUME NEW w \in Workers, WorkerStep(w), inst[w] \notin Archives
      PROVE  settled' + BytesHeld' = SumFunctionOnSet(Share', archives)
  <2>1. inst[w] \in Files
    BY <1>5, Known, SMTT(30)
       DEF LocalsOK, LocalOK, WorkerStep, ReadClaim, ReadFile, Find, Create,
        BeginWrite, WriteContent, CannotWrite, Assign, Admit, Extract, Visit, Insert, Settle,
        GiveBack, Record,
        Release, Roots
  <2>2. UNCHANGED <<settled, held>> \/ (Finish(w) /\ UNCHANGED settled)
    BY <1>5, <2>1, Known DEF WorkerStep, ReadClaim, ReadFile, Find, Create,
        BeginWrite, WriteContent, CannotWrite, Assign, Admit, Extract, Visit, Insert, Settle,
        GiveBack, Record,
        Release, LocalsOK, LocalOK, localVars, batchVars
  <2>3. held[w] = 0
    BY <1>5 DEF LedgerInv, HeldOK
  <2>4. held'[w] = 0
    BY <1>0, <2>2, <2>3, Finished
  <2>5. BytesHeld' = BytesHeld
    BY <1>0, <1>5, <2>3, <2>4, HeldSum DEF MyStep
  <2>6. \A v \in Workers : inst[v] \in archives => Same(v)
    BY <1>0, <1>5, OnlyMine DEF MyStep
  <2>. QED
    BY <1>3, <2>2, <2>5, <2>6, SMTT(30)
<1>6. ASSUME NEW w \in Workers, NEW i \in scenario.roots, Claim(w, i)
      PROVE  settled' + BytesHeld' = SumFunctionOnSet(Share', archives)
  <2>1. inst[w] = None /\ UNCHANGED <<settled, held>>
    BY <1>6, Known DEF Claim, LocalsOK, LocalOK, batchVars
  <2>2. BytesHeld' = BytesHeld
    BY <2>1 DEF BytesHeld
  <2>3. \A v \in Workers : inst[v] \in archives => Same(v)
    BY <1>0, <1>6, <2>1, Known, OnlyMine DEF MyStep
  <2>. QED
    BY <1>3, <2>1, <2>2, <2>3
<1>7. CASE OtherSteps \/ UNCHANGED vars
  <2>1. UNCHANGED settled
    BY <1>7 DEF OtherSteps, Reconcile, ReportAttempted, ReportTerminal,
        ReportSuccessful, Decide, LeaseExpires, AttemptGroup, SettleGroup, ControlBatch,
        vars, batchVars
  <2>2. \A v \in Workers : Same(v)
    BY <1>7, OthersKeepWorkers DEF Same, localVars
  <2>. QED
    BY <1>3, <1>7, <2>1, <2>2, HeldSum
<1>. QED
  BY <1>1, <1>4, <1>5, <1>6, <1>7 DEF Next, OtherSteps

\* A settlement breaks no CHECK where the ledger balances: what an archive comes
\* to fits where its declaration did, or there is room for all figures.
LEMMA SettlementFits ==
    ASSUME LedgerInv, NEW w \in Workers, pc[w] = "settle", SettlementsFit, crashes = 0,
           scenario.envelope # None
    PROVE  SettledTotal(w) \in 0..scenario.envelope
<1>. DEFINE archives == Archives \cap scenario.roots
<1>0. PICK a \in archives : inst[w] = a
  BY Known DEF LocalsOK, LocalOK
<1>1. /\ extractedBytes = settled + BytesHeld /\ scenario.stalls = {}
      /\ settled \in Nat /\ BytesHeld \in Nat /\ scenario.envelope \in Nat
      /\ Declared[a] \in Nat /\ Actual[a] \in Nat /\ held[w] = Declared[a]
      /\ extractedBytes <= scenario.envelope
  <2>1. BytesHeld \in Nat
    BY Known, SumPart DEF BytesHeld, WorkerTypeOK
  <2>. QED
    BY <1>0, <2>1, Known DEF LedgerInv, BytesAccounted, SettlementsFit, BatchTypeOK,
        HeldOK, Reserving, Walking, Capped
<1>2. held[w] <= BytesHeld
  <2>1. /\ BytesHeld = held[w] + SumFunctionOnSet(held, Workers \ {w})
        /\ SumFunctionOnSet(held, Workers \ {w}) \in Nat
    <3>1. IsFiniteSet(Workers) /\ \A v \in Workers : held[v] \in Nat
      BY Known DEF WorkerTypeOK
    <3>2. SumFunctionOnSet(held, Workers) = held[w] + SumFunctionOnSet(held, Workers \ {w})
      BY <3>1, SumRemove
    <3>3. SumFunctionOnSet(held, Workers \ {w}) \in Nat
      <4>1. Workers \ {w} \in SUBSET Workers
        OBVIOUS
      <4>. QED
        BY <3>1, <4>1, SumPart
    <3>. QED
      BY <3>2, <3>3 DEF BytesHeld
  <2>. QED
    BY <1>1, <2>1
<1>3. SettledTotal(w) = settled + BytesHeld + Actual[a] - Declared[a]
  BY <1>0, <1>1 DEF SettledTotal
<1>4. CASE Actual[a] <= Declared[a]
  BY <1>1, <1>2, <1>3, <1>4
<1>5. CASE SumFunctionOnSet(Room, archives) <= scenario.envelope
  <2>. DEFINE after == [Share EXCEPT ![a] = Actual[a]]
  <2>1. Share[a] = Declared[a]
    BY <1>0, <1>1, ShareNow DEF LedgerInv, Once, Reserving, Walking
  <2>2. \A b \in archives : /\ Share[b] \in Int /\ after[b] \in Int /\ Room[b] \in Int
                            /\ after[b] <= Room[b]
                            /\ b # a => after[b] = Share[b]
    BY <1>1, Known, ShareType DEF Share, Room
  <2>3. after[a] = Actual[a]
    BY <1>0 DEF Share
  <2>. HIDE DEF after
  <2>4. SumFunctionOnSet(after, archives)
        = SumFunctionOnSet(Share, archives) - Declared[a] + Actual[a]
    BY <1>0, <2>1, <2>2, <2>3, Known, SumChange
  <2>5. SumFunctionOnSet(after, archives) <= SumFunctionOnSet(Room, archives)
    BY <2>2, Known, SumMonotone
  <2>6. settled + BytesHeld = SumFunctionOnSet(Share, archives)
    BY <1>1 DEF LedgerInv, SharesAddUp
  <2>7. SumFunctionOnSet(Room, archives) \in Int
    BY <2>2, Known, SumType
  <2>. HIDE DEF archives
  <2>. QED
    BY <1>1, <1>2, <1>3, <1>5, <2>4, <2>5, <2>6, <2>7
<1>. QED
  BY <1>0, <1>4, <1>5 DEF SettlementsFit

\* The ledger's three figures move together.
LEMMA LedgerStep == LedgerInv /\ [Next]_vars => Capped' /\ BytesAccounted'
<1>. SUFFICES ASSUME LedgerInv, [Next]_vars
              PROVE  /\ scenario.envelope # None => extractedBytes' <= scenario.envelope
                     /\ extractedBytes' >= settled' + BytesHeld'
                     /\ SettlementsFit /\ crashes' = 0 => extractedBytes' = settled' + BytesHeld'
  <2>1. [Next]_vars => UNCHANGED scenario
    BY DEF Next, vars
  <2>. QED
    BY <2>1 DEF Capped, BytesAccounted, SettlementsFit
<1>0. /\ TypeInv /\ WorkerTypeOK /\ crashes \in Nat
      /\ extractedBytes \in Int /\ settled \in Nat /\ BytesHeld \in Nat /\ BytesHeld' \in Nat
      /\ scenario.envelope \in Nat \cup {None}
      /\ scenario.envelope # None => extractedBytes <= scenario.envelope
      /\ extractedBytes >= settled + BytesHeld
      /\ SettlementsFit /\ crashes = 0 => extractedBytes = settled + BytesHeld
      /\ \A w \in Workers : held[w] \in Nat
  BY Known, HeldSum DEF LedgerInv, Capped, BytesAccounted, BatchTypeOK, WorkerTypeOK
<1>. USE DEF Goto, FailArchive
<1>1. CASE UNCHANGED <<extractedBytes, settled, crashes>> /\ BytesHeld' = BytesHeld
  BY <1>0, <1>1
<1>2. ASSUME NEW w \in Workers, MyStep(w)
      PROVE  BytesHeld' = BytesHeld - held[w] + held'[w]
  BY <1>2, HeldSum
<1>3. ASSUME NEW w \in Workers, Finish(w), MyStep(w), UNCHANGED <<extractedBytes, settled>>,
             ~(SettlementsFit /\ crashes' = 0) \/ held[w] = 0,
             crashes' \in {crashes, crashes + 1}
      PROVE  /\ scenario.envelope # None => extractedBytes' <= scenario.envelope
             /\ extractedBytes' >= settled' + BytesHeld'
             /\ SettlementsFit /\ crashes' = 0 => extractedBytes' = settled' + BytesHeld'
  <2>1. held'[w] = 0
    BY <1>0, <1>3, Finished
  <2>2. BytesHeld' = BytesHeld - held[w]
    BY <1>0, <1>2, <1>3, <2>1
  <2>. QED
    BY <1>0, <1>3, <2>2
<1>4. ASSUME NEW w \in Workers, Admit(w)
      PROVE  /\ scenario.envelope # None => extractedBytes' <= scenario.envelope
             /\ extractedBytes' >= settled' + BytesHeld'
             /\ SettlementsFit /\ crashes' = 0 => extractedBytes' = settled' + BytesHeld'
  <2>1. held[w] = 0 /\ Declared[inst[w]] \in Nat
    BY <1>4, Known DEF LedgerInv, HeldOK, Admit, Reserving, Walking, Looking, LocalsOK,
        LocalOK
  <2>2. BytesHeld' = BytesHeld + held'[w]
    BY <1>0, <1>2, <1>4, <2>1 DEF MyStep, WorkerStep
  <2>. QED
    BY <1>0, <1>4, <2>1, <2>2 DEF Admit, WorkerTypeOK
<1>5. ASSUME NEW w \in Workers, GiveBack(w)
      PROVE  /\ scenario.envelope # None => extractedBytes' <= scenario.envelope
             /\ extractedBytes' >= settled' + BytesHeld'
             /\ SettlementsFit /\ crashes' = 0 => extractedBytes' = settled' + BytesHeld'
  <2>1. BytesHeld' = BytesHeld - held[w] + held'[w]
    BY <1>2, <1>5 DEF MyStep, WorkerStep
  <2>. QED
    BY <1>0, <1>5, <2>1 DEF GiveBack, WorkerTypeOK
<1>6. ASSUME NEW w \in Workers, Settle(w)
      PROVE  /\ scenario.envelope # None => extractedBytes' <= scenario.envelope
             /\ extractedBytes' >= settled' + BytesHeld'
             /\ SettlementsFit /\ crashes' = 0 => extractedBytes' = settled' + BytesHeld'
  <2>1. /\ BytesHeld' = BytesHeld - held[w] + held'[w]
        /\ Actual[inst[w]] \in Nat /\ held[w] \in Nat
        /\ scenario.envelope = None => held[w] = 0
    BY <1>0, <1>2, <1>6, Known DEF MyStep, WorkerStep, Settle, LocalsOK, LocalOK,
        LedgerInv, HeldOK
  <2>2. CASE scenario.envelope = None
    BY <1>0, <1>6, <2>1, <2>2 DEF Settle, WorkerTypeOK
  <2>3. CASE scenario.envelope # None /\ SettledTotal(w) \in 0..scenario.envelope
    <3>1. /\ extractedBytes' = extractedBytes + Actual[inst[w]] - held[w]
          /\ settled' = settled + Actual[inst[w]] /\ held'[w] = 0 /\ crashes' = crashes
          /\ extractedBytes' <= scenario.envelope
      BY <1>0, <1>6, <2>3 DEF Settle, SettledTotal, WorkerTypeOK
    <3>. QED
      BY <1>0, <2>1, <2>3, <3>1
  <2>4. CASE scenario.envelope # None /\ SettledTotal(w) \notin 0..scenario.envelope
    <3>1. Finish(w) /\ UNCHANGED <<extractedBytes, settled, crashes>> /\ pc[w] = "settle"
      BY <1>6, <2>4 DEF Settle
    <3>2. ~(SettlementsFit /\ crashes' = 0)
      BY <2>4, <3>1, SettlementFits
    <3>. QED
      BY <1>3, <1>6, <3>1, <3>2 DEF MyStep, WorkerStep
  <2>. QED
    BY <2>2, <2>3, <2>4
<1>7. ASSUME NEW w \in Workers, Insert(w)
      PROVE  /\ scenario.envelope # None => extractedBytes' <= scenario.envelope
             /\ extractedBytes' >= settled' + BytesHeld'
             /\ SettlementsFit /\ crashes' = 0 => extractedBytes' = settled' + BytesHeld'
  <2>1. CASE Walk[inst[w]][at[w]] \notin rows
    <3>1. UNCHANGED <<extractedBytes, settled, crashes, held>>
      BY <1>7, <2>1 DEF Insert, batchVars
    <3>. QED
      BY <1>1, <3>1 DEF BytesHeld
  <2>2. CASE Walk[inst[w]][at[w]] \in rows
    <3>1. Finish(w) /\ UNCHANGED <<extractedBytes, settled, crashes>> /\ pc[w] = "insert"
      BY <1>7, <2>2 DEF Insert, batchVars
    <3>2. ~SettlementsFit
      BY <2>2, <3>1 DEF LedgerInv, Unwritten, SettlementsFit
    <3>. QED
      BY <1>3, <1>7, <3>1, <3>2 DEF MyStep, WorkerStep
  <2>. QED
    BY <2>1, <2>2
<1>8. ASSUME NEW w \in Workers, Release(w)
      PROVE  /\ scenario.envelope # None => extractedBytes' <= scenario.envelope
             /\ extractedBytes' >= settled' + BytesHeld'
             /\ SettlementsFit /\ crashes' = 0 => extractedBytes' = settled' + BytesHeld'
  <2>1. held[w] = 0
    BY <1>8 DEF Release, LedgerInv, HeldOK, Reserving, Walking, Looking
  <2>2. Finish(w) /\ UNCHANGED <<extractedBytes, settled, crashes>>
    BY <1>8 DEF Release, batchVars
  <2>. QED
    BY <1>3, <1>8, <2>1, <2>2 DEF MyStep, WorkerStep
<1>9. ASSUME NEW w \in Workers, Crash(w)
      PROVE  /\ scenario.envelope # None => extractedBytes' <= scenario.envelope
             /\ extractedBytes' >= settled' + BytesHeld'
             /\ SettlementsFit /\ crashes' = 0 => extractedBytes' = settled' + BytesHeld'
  <2>1. Finish(w) /\ UNCHANGED <<extractedBytes, settled>> /\ crashes' = crashes + 1 /\ crashes' # 0
    BY <1>0, <1>9 DEF Crash, batchVars
  <2>. QED
    BY <1>3, <1>9, <2>1 DEF MyStep
<1>10. ASSUME NEW w \in Workers,
              ReadClaim(w) \/ ReadFile(w) \/ Find(w) \/ Create(w) \/ BeginWrite(w) \/
              WriteContent(w) \/ Assign(w)
              \/ Extract(w) \/ Visit(w) \/ Record(w) \/ \E i \in scenario.roots : Claim(w, i)
       PROVE  UNCHANGED <<extractedBytes, settled, crashes, held>>
  BY <1>10 DEF ReadClaim, ReadFile, Find, Create, BeginWrite, WriteContent, CannotWrite, Assign,
     Extract, Visit,
      Record, Claim, batchVars, localVars
<1>11. ASSUME OtherSteps \/ UNCHANGED vars PROVE UNCHANGED <<extractedBytes, settled, crashes, held>>
  BY <1>11 DEF OtherSteps, Reconcile, ReportAttempted, ReportTerminal, ReportSuccessful,
      Decide, LeaseExpires, AttemptGroup, SettleGroup, ControlBatch, vars, batchVars,
      localVars
<1>12. UNCHANGED held => BytesHeld' = BytesHeld
  BY DEF BytesHeld
<1>. QED
  BY <1>1, <1>4, <1>5, <1>6, <1>7, <1>8, <1>9, <1>10, <1>11, <1>12 DEF Next, WorkerStep,
      OtherSteps

\* BytesAccounted: extracted_bytes_consumed covers what was settled and what is
\* reserved, and is their sum where no worker dies or outlasts a lease and the
\* settlements fit.
THEOREM BytesHold == Spec => []BytesAccounted
<1>1. Init => LedgerInv
  <2>. SUFFICES ASSUME Init PROVE LedgerInv
    OBVIOUS
  <2>1. ClaimInv
    BY TypeInit, RowsAssumption
       DEF Init, ClaimInv, Generations, ArchiveClaims, Alone, Unloaded, Roots
  <2>2. HeldOK /\ Unwritten /\ Once
    BY RowsAssumption DEF Init, HeldOK, Unwritten, Once, Reserving, Walking, Looking, Roots
  <2>3. BytesHeld = 0
    BY RowsAssumption, SumZero DEF Init, BytesHeld
  <2>4. SumFunctionOnSet(Share, Archives \cap scenario.roots) = 0
    <3>1. \A a \in Archives \cap scenario.roots : Share[a] = 0
      BY RowsAssumption DEF Init, Share, IsSettled, IsReserved, Processed, Roots
    <3>2. IsFiniteSet(Archives \cap scenario.roots)
      BY RowsAssumption, FS_Subset DEF Roots
    <3>. QED
      BY <3>1, <3>2, SumZero
  <2>5. Capped
    BY ScopeAssumption DEF Init, Capped
  <2>. QED
    BY <2>1, <2>2, <2>3, <2>4, <2>5 DEF Init, LedgerInv, SharesAddUp, BytesAccounted
<1>2. LedgerInv /\ [Next]_vars => LedgerInv'
  <2>1. LedgerInv /\ [Next]_vars => ClaimInv'
    BY TypeStep, GenerationsStep, ClaimsStep DEF LedgerInv, ClaimInv
  <2>. QED
    BY <2>1, HeldStep, UnwrittenStep, OnceStep, SharesStep, LedgerStep DEF LedgerInv
<1>3. LedgerInv => BytesAccounted
  BY DEF LedgerInv
<1>. QED
  BY <1>1, <1>2, <1>3, PTL DEF Spec
-----------------------------------------------------------------------------
(* Import jobs.                                                            *)

\* What holds of 0, and of a number when it holds of the one before, holds up to n.
LEMMA UpTo ==
    ASSUME NEW n \in Nat, NEW Good, 0 \in Good, \A i \in 1..n : i - 1 \in Good => i \in Good
    PROVE  0..n \subseteq Good
<1> SUFFICES ASSUME NEW b \in 0..n, b \notin Good PROVE FALSE
  OBVIOUS
<1>. DEFINE Bad == {i \in 0..n : i \notin Good}
<1>1. PICK m \in Bad : \A i \in Bad : m <= i
  <2>1. Bad \in SUBSET Nat /\ Bad # {}
    OBVIOUS
  <2>. QED
    BY <2>1, Least
<1>2. m \in 1..n /\ m - 1 \in 0..n
  OBVIOUS
<1>3. m - 1 \in Good
  BY <1>1, <1>2
<1>. QED
  BY <1>2, <1>3

\* F gives from an element of S the next, and f is what comes of a in n such steps.
Closed(F, n, S) == \A i \in 1..n : \A t \in S : F[i][t] \in S
Iterates(f, F, n, S, a) ==
    f \in [0..n -> S] /\ f[0] = a /\ \A i \in 1..n : f[i] = F[i][f[i - 1]]

LEMMA Recursion ==
    ASSUME NEW n \in Nat, NEW S, NEW a \in S, NEW F, Closed(F, n, S)
    PROVE  \E f : Iterates(f, F, n, S, a)
<1>. USE DEF Closed, Iterates
<1>. DEFINE Good == {k \in 0..n : \E f \in [0..k -> S] :
                        f[0] = a /\ \A i \in 1..k : f[i] = F[i][f[i - 1]]}
<1>1. 0 \in Good
  <2>. DEFINE g == [i \in 0..0 |-> a]
  <2>1. g \in [0..0 -> S] /\ g[0] = a /\ \A i \in 1..0 : g[i] = F[i][g[i - 1]]
    OBVIOUS
  <2>. HIDE DEF g
  <2>2. \E f \in [0..0 -> S] : f[0] = a /\ \A i \in 1..0 : f[i] = F[i][f[i - 1]]
    BY <2>1
  <2>. QED
    BY <2>2
<1>2. ASSUME NEW k \in 1..n, k - 1 \in Good PROVE k \in Good
  <2>1. PICK f \in [0..(k - 1) -> S] :
           f[0] = a /\ \A i \in 1..(k - 1) : f[i] = F[i][f[i - 1]]
    BY <1>2
  <2>. DEFINE g == [i \in 0..k |-> IF i = k THEN F[k][f[k - 1]] ELSE f[i]]
  <2>2. k - 1 \in 0..(k - 1) /\ f[k - 1] \in S
    OBVIOUS
  <2>3. F[k][f[k - 1]] \in S
    BY <2>2
  <2>4. g \in [0..k -> S]
    BY <2>3
  <2>5. g[0] = a
    BY <2>1
  <2>6. ASSUME NEW i \in 1..k PROVE g[i] = F[i][g[i - 1]]
    <3>1. i - 1 \in 0..(k - 1) /\ g[i - 1] = f[i - 1]
      OBVIOUS
    <3>2. CASE i = k
      BY <3>1, <3>2
    <3>3. CASE i # k
      BY <2>1, <3>1, <3>3
    <3>. QED
      BY <3>2, <3>3
  <2>. HIDE DEF g
  <2>7. \E h \in [0..k -> S] : h[0] = a /\ \A i \in 1..k : h[i] = F[i][h[i - 1]]
    BY <2>4, <2>5, <2>6
  <2>8. k \in 0..n
    OBVIOUS
  <2>. QED
    BY <2>7, <2>8, Zenon
<1>3. n \in Good
  <2>. HIDE DEF Good
  <2>1. 0..n \subseteq Good
    BY <1>1, <1>2, UpTo
  <2>. QED
    BY <2>1
<1>. QED
  BY <1>3, Zenon

\* What is kept of a sequence is a sequence of elements that were to be kept.
LEMMA KeptSeq ==
    ASSUME NEW X, NEW s \in Seq(X), NEW W
    PROVE  Kept(s, W) \in Seq(X \cap W)
<1>. DEFINE n == Len(s)
            S == Seq(X \cap W)
            Shape(k) == [i \in 0..n |->
                            IF i = 0 THEN << >>
                            ELSE IF s[i] \in W THEN Append(k[i - 1], s[i]) ELSE k[i - 1]]
            kept == CHOOSE k : k = Shape(k)
            F == [i \in 1..n |-> [t \in S |-> IF s[i] \in W THEN Append(t, s[i]) ELSE t]]
<1>1. Kept(s, W) = kept[n]
  BY DEF Kept
<1>2. n \in Nat /\ << >> \in S /\ \A i \in 1..n : s[i] \in X
  OBVIOUS
<1>3. ASSUME NEW i \in 1..n, NEW t \in S
      PROVE  (IF s[i] \in W THEN Append(t, s[i]) ELSE t) \in S
  BY <1>2
<1>4. \A i \in 1..n : \A t \in S : F[i][t] \in S
  BY <1>3
<1>5. PICK f \in [0..n -> S] : f[0] = << >> /\ \A i \in 1..n : f[i] = F[i][f[i - 1]]
  <2>1. n \in Nat /\ << >> \in S
    BY <1>2
  <2>2. Closed(F, n, S)
    BY <1>4 DEF Closed
  <2>. HIDE DEF n, S, F
  <2>3. PICK f : Iterates(f, F, n, S, << >>)
    BY <2>1, <2>2, Recursion
  <2>. QED
    BY <2>3 DEF Iterates
<1>6. f = Shape(f)
  <2>1. ASSUME NEW i \in 1..n
        PROVE  f[i] = IF s[i] \in W THEN Append(f[i - 1], s[i]) ELSE f[i - 1]
    <3>. HIDE DEF n, S
    <3>1. i - 1 \in 0..n /\ f[i - 1] \in S
      BY <1>2
    <3>. QED
      BY <1>5, <3>1
  <2>2. \A i \in 0..n : i # 0 => i \in 1..n
    BY <1>2
  <2>. HIDE DEF n, S, F
  <2>3. \A i \in 0..n : f[i] = IF i = 0 THEN << >>
            ELSE IF s[i] \in W THEN Append(f[i - 1], s[i]) ELSE f[i - 1]
    BY <1>5, <2>1, <2>2
  <2>. QED
    BY <2>3
<1>7. kept = Shape(kept)
  <2>. HIDE DEF Shape
  <2>. QED
    BY <1>6
<1>. DEFINE Good == {i \in 0..n : kept[i] \in S}
<1>8. 0..n \subseteq Good
  <2>. HIDE DEF kept
  <2>1. 0 \in 0..n /\ kept[0] = << >>
    BY <1>2, <1>7
  <2>2. 0 \in Good
    <3>. HIDE DEF n, S
    <3>. QED
      BY <1>2, <2>1
  <2>3. ASSUME NEW i \in 1..n, i - 1 \in Good PROVE i \in Good
    <3>1. i \in 0..n /\ i # 0 /\ kept[i - 1] \in S
      BY <1>2, <2>3
    <3>2. kept[i] = IF s[i] \in W THEN Append(kept[i - 1], s[i]) ELSE kept[i - 1]
      BY <1>7, <3>1
    <3>. QED
      BY <1>3, <3>1, <3>2
  <2>. HIDE DEF Good, n
  <2>. QED
    BY <1>2, <2>2, <2>3, UpTo
<1>9. kept[n] \in S
  <2>. HIDE DEF kept, n, S
  <2>. QED
    BY <1>2, <1>8
<1>. QED
  BY <1>1, <1>9

\* The elements of the first k sequences of ss, one after the other.
IsFlat(f, ss) ==
    /\ DOMAIN f = 0..Len(ss)
    /\ f[0] = << >>
    /\ \A k \in 1..Len(ss) : f[k] = f[k - 1] \o ss[k]
    /\ f[Len(ss)] = FlattenSeq(ss)

LEMMA Flattening ==
    ASSUME NEW X, NEW ss \in Seq(Seq(X))
    PROVE  \E f : IsFlat(f, ss)
<1>. DEFINE n == Len(ss)
            S == Seq(X)
            Shape(k) == [i \in 1..n |-> IF i = 1 THEN ss[i] ELSE k[i - 1] \o ss[i]]
            flatten == CHOOSE k : k = Shape(k)
            F == [i \in 1..n |-> [t \in S |-> t \o ss[i]]]
<1>1. FlattenSeq(ss) = IF n = 0 THEN ss ELSE flatten[n]
  BY DEF FlattenSeq
<1>2. n \in Nat /\ << >> \in S /\ \A i \in 1..n : ss[i] \in S
  OBVIOUS
<1>3. \A i \in 1..n : \A t \in S : F[i][t] \in S
  BY <1>2
<1>4. PICK f \in [0..n -> S] : f[0] = << >> /\ \A i \in 1..n : f[i] = F[i][f[i - 1]]
  <2>1. n \in Nat /\ << >> \in S
    BY <1>2
  <2>2. Closed(F, n, S)
    BY <1>3 DEF Closed
  <2>. HIDE DEF n, S, F
  <2>3. PICK f : Iterates(f, F, n, S, << >>)
    BY <2>1, <2>2, Recursion
  <2>. QED
    BY <2>3 DEF Iterates
<1>5. ASSUME NEW i \in 1..n PROVE f[i] = f[i - 1] \o ss[i]
  <2>1. i - 1 \in 0..n /\ f[i - 1] \in S
    <3>. HIDE DEF n, S
    <3>. QED
      BY <1>2
  <2>2. F[i][f[i - 1]] = f[i - 1] \o ss[i]
    <3>. HIDE DEF n, S
    <3>. QED
      BY <2>1
  <2>. HIDE DEF n, S, F
  <2>. QED
    BY <1>4, <2>2
<1>6. n > 0 => f[1] = ss[1]
  <2>1. n > 0 => 1 \in 1..n /\ ss[1] \in Seq(X)
    BY <1>2
  <2>2. n > 0 => f[1] = << >> \o ss[1]
    <3>. HIDE DEF n, S, F
    <3>1. n > 0 => f[1] = f[1 - 1] \o ss[1]
      BY <1>5, <2>1
    <3>2. 1 - 1 = 0
      OBVIOUS
    <3>. QED
      BY <1>4, <3>1, <3>2
  <2>3. \A t \in Seq(X) : << >> \o t = t
    OBVIOUS
  <2>. QED
    BY <2>1, <2>2, <2>3
<1>. DEFINE g == [i \in 1..n |-> f[i]]
<1>7. g = Shape(g)
  <2>. HIDE DEF n, S, F
  <2>1. ASSUME NEW i \in 1..n
        PROVE  f[i] = IF i = 1 THEN ss[i] ELSE g[i - 1] \o ss[i]
    <3>1. i # 1 => i - 1 \in 1..n
      BY <1>2
    <3>2. i # 1 => g[i - 1] = f[i - 1]
      BY <3>1
    <3>. HIDE DEF g
    <3>3. CASE i = 1
      BY <1>2, <1>6, <3>3
    <3>4. CASE i # 1
      BY <1>5, <3>2, <3>4
    <3>. QED
      BY <3>3, <3>4
  <2>. QED
    BY <2>1
<1>8. flatten = Shape(flatten)
  <2>. HIDE DEF Shape, g
  <2>. QED
    BY <1>7
<1>. DEFINE Good == {i \in 0..n : i > 0 => flatten[i] = f[i]}
<1>9. 0..n \subseteq Good
  <2>. HIDE DEF flatten, F, S, n
  <2>1. 0 \in Good
    BY <1>2
  <2>2. ASSUME NEW i \in 1..n, i - 1 \in Good PROVE i \in Good
    <3>1. flatten[i] = IF i = 1 THEN ss[i] ELSE flatten[i - 1] \o ss[i]
      BY <1>8
    <3>2. i # 1 => flatten[i - 1] = f[i - 1]
      BY <1>2, <2>2
    <3>3. flatten[i] = f[i]
      <4>1. CASE i = 1
        BY <1>2, <1>6, <3>1, <4>1
      <4>2. CASE i # 1
        BY <1>5, <3>1, <3>2, <4>2
      <4>. QED
        BY <4>1, <4>2
    <3>. QED
      BY <1>2, <3>3
  <2>. HIDE DEF Good
  <2>. QED
    BY <1>2, <2>1, <2>2, UpTo
<1>10. f[n] = FlattenSeq(ss)
  <2>1. CASE n = 0
    BY <1>1, <1>4, <2>1
  <2>2. CASE n # 0
    <3>1. n \in 0..n /\ n > 0
      BY <1>2, <2>2
    <3>2. flatten[n] = f[n]
      <4>. HIDE DEF flatten, F, S, n
      <4>. QED
        BY <1>9, <3>1
    <3>. HIDE DEF flatten, F, S, n
    <3>. QED
      BY <1>1, <2>2, <3>2
  <2>. QED
    BY <2>1, <2>2
<1>11. IsFlat(f, ss)
  BY <1>4, <1>5, <1>10 DEF IsFlat
<1>. QED
  BY <1>11

FileEntries == {m \in Entries : m.content \in Contents}

LEMMA ArchiveFacts ==
    ASSUME setting \in Settings, NEW a \in ToSet(setting.archives)
    PROVE  /\ FilesOf(a) \in Seq(FileEntries)
           /\ PathsOf(a) \in Seq(Paths)
           /\ \A p \in Paths : Named(a, p) # {} => FilesOf(a)[Max(Named(a, p))].content \in Contents
<1>1. /\ setting.archives \in Seq(ArchiveRecords)
      /\ \A m \in ToSet(a.members) : m.content = Null => m.kind = "dir"
  BY SettingsAssumption
<1>2. a \in ArchiveRecords
  BY <1>1 DEF ToSet
<1>3. a.members \in Seq(Entries)
  BY <1>2 DEF ArchiveRecords
<1>. DEFINE W == {m \in ToSet(a.members) : m.kind # "dir"}
<1>4. FilesOf(a) \in Seq(Entries \cap W)
  BY <1>3, KeptSeq DEF FilesOf
<1>5. Entries \cap W \subseteq FileEntries
  BY <1>1 DEF FileEntries, Entries
<1>6. FilesOf(a) \in Seq(FileEntries)
  <2>. HIDE DEF W
  <2>. QED
    BY <1>4, <1>5
<1>7. \A i \in DOMAIN FilesOf(a) : FilesOf(a)[i] \in FileEntries
  BY <1>6
<1>8. PathsOf(a) \in Seq(Paths)
  <2>1. \A i \in 1..Len(FilesOf(a)) : FilesOf(a)[i].path \in Paths
    BY <1>6, <1>7 DEF FileEntries, Entries
  <2>. QED
    BY <1>6, <2>1 DEF PathsOf
<1>9. ASSUME NEW p \in Paths, Named(a, p) # {}
      PROVE  FilesOf(a)[Max(Named(a, p))].content \in Contents
  <2>1. Len(FilesOf(a)) \in Nat /\ Named(a, p) \in SUBSET (1..Len(FilesOf(a)))
    BY <1>6 DEF Named
  <2>2. Max(Named(a, p)) \in Named(a, p)
    <3>1. Named(a, p) \in SUBSET Nat /\ IsFiniteSet(Named(a, p))
      <4>1. IsFiniteSet(1..Len(FilesOf(a)))
        BY <2>1, FS_Interval
      <4>. QED
        BY <2>1, <4>1, FS_Subset
    <3>2. \E m \in Named(a, p) : \A n \in Named(a, p) : m >= n
      BY <1>9, <3>1, Greatest
    <3>. QED
      BY <3>2 DEF Max
  <2>3. Max(Named(a, p)) \in DOMAIN FilesOf(a)
    BY <2>2 DEF Named
  <2>. QED
    BY <1>7, <2>3 DEF FileEntries
<1>. QED
  BY <1>6, <1>8, <1>9

\* The paths that each archive holds, and those of the first k archives.
Expansion == [i \in DOMAIN setting.archives |-> PathsOf(setting.archives[i])]
Flat == CHOOSE f : IsFlat(f, Expansion)

LEMMA Expanding ==
    ASSUME setting \in Settings
    PROVE  /\ setting.archives \in Seq(ArchiveRecords) /\ setting.listing \in Seq(Paths)
           /\ Len(Expansion) = Len(setting.archives)
           /\ Flat[0] = << >>
           /\ \A k \in 1..Len(setting.archives) :
                 Flat[k] = Flat[k - 1] \o PathsOf(setting.archives[k])
           /\ Everything = setting.listing \o Flat[Len(setting.archives)]
<1>1. setting.archives \in Seq(ArchiveRecords) /\ setting.listing \in Seq(Paths)
  BY SettingsAssumption
<1>2. \A i \in 1..Len(setting.archives) : PathsOf(setting.archives[i]) \in Seq(Paths)
  BY <1>1, ArchiveFacts DEF ToSet
<1>3. /\ Expansion \in Seq(Seq(Paths)) /\ Len(Expansion) = Len(setting.archives)
      /\ \A i \in 1..Len(setting.archives) : Expansion[i] = PathsOf(setting.archives[i])
  BY <1>1, <1>2 DEF Expansion
<1>4. IsFlat(Flat, Expansion)
  BY <1>3, Flattening DEF Flat
<1>5. Everything = setting.listing \o FlattenSeq(Expansion)
  BY DEF Everything, Expansion
<1>. QED
  BY <1>1, <1>3, <1>4, <1>5 DEF IsFlat

LEMMA FlatSeq ==
    ASSUME setting \in Settings, NEW k \in 0..Len(setting.archives)
    PROVE  Flat[k] \in Seq(Paths)
<1>. DEFINE n == Len(setting.archives)
            Good == {i \in 0..n : Flat[i] \in Seq(Paths)}
<1>1. n \in Nat /\ setting.archives \in Seq(ArchiveRecords)
  BY Expanding
<1>2. 0 \in Good
  <2>1. Flat[0] = << >> /\ 0 \in 0..n
    BY <1>1, Expanding
  <2>2. << >> \in Seq(Paths)
    OBVIOUS
  <2>. HIDE DEF n
  <2>. QED
    BY <2>1, <2>2
<1>3. ASSUME NEW i \in 1..n, i - 1 \in Good PROVE i \in Good
  <2>1. PathsOf(setting.archives[i]) \in Seq(Paths)
    BY <1>1, ArchiveFacts DEF ToSet
  <2>2. Flat[i] = Flat[i - 1] \o PathsOf(setting.archives[i])
    BY Expanding
  <2>3. i \in 0..n /\ Flat[i - 1] \in Seq(Paths)
    BY <1>1, <1>3
  <2>4. Flat[i] \in Seq(Paths)
    BY <2>1, <2>2, <2>3
  <2>. QED
    BY <2>3, <2>4
<1>4. 0..n \subseteq Good
  <2>. HIDE DEF Good, n
  <2>. QED
    BY <1>1, <1>2, <1>3, UpTo
<1>. QED
  BY <1>4

Rest == {"idle"} \cup Ended

ImportTyped ==
    /\ setting \in Settings
    /\ row \in Jobs
    /\ documents \in Seq(Documents)
    /\ disk \in [Paths -> Contents \cup {Null, Torn}]
    /\ step \in [Calls -> CallSteps]
    /\ found \in [Calls -> Seq(Paths)]
    /\ todo = [c \in Calls |-> todo[c]]
    /\ made \in [Calls -> Seq(Nat)]
    /\ pending \in [Calls -> Nat \cup {Null}]
    /\ \A c \in Calls : ToSet(made[c]) \subseteq DOMAIN documents

StoredPaths(c) == [i \in DOMAIN made[c] |-> documents[made[c][i]].path]

\* What a call has done by the time it is at a step.
Progress(c) ==
    /\ step[c] \in {"idle", "start", "byHand", "claim", "scan", "extract", "inflate"}
           => made[c] = << >>
    /\ step[c] \in {"extract", "inflate"} =>
           \E k \in 0..Len(setting.archives) :
               /\ todo[c] = SubSeq(setting.archives, k + 1, Len(setting.archives))
               /\ found[c] = setting.listing \o Flat[k]
    /\ step[c] = "inflate" => todo[c] # << >>
    /\ step[c] \in {"store", "embed", "complete"} => found[c] = Everything
    /\ step[c] = "store" => todo[c] \in Seq(Paths)
                            /\ StoredPaths(c) \o todo[c] = Documentable(Everything)
    /\ step[c] = "embed" => todo[c] \in Seq(Nat)
    /\ step[c] \in {"embed", "complete"} => StoredAll(c)
    /\ step[c] # "commit"

ImportBase == ImportTyped /\ \A c \in Calls : Progress(c)

LEMMA ImportMoves ==
    ASSUME ImportTyped, NEW c \in Calls, NEW s \in CallSteps, MoveTo(c, s)
    PROVE  /\ step' \in [Calls -> CallSteps]
           /\ step'[c] = s
           /\ \A d \in Calls : d # c => step'[d] = step[d]
  BY DEF ImportTyped, MoveTo

\* What is being extracted.
LEMMA Extracting ==
    ASSUME ImportTyped, NEW c \in Calls, Progress(c), step[c] \in {"extract", "inflate"},
           todo[c] # << >>
    PROVE  \E k \in 0..(Len(setting.archives) - 1) :
               /\ Head(todo[c]) = setting.archives[k + 1]
               /\ Head(todo[c]) \in ToSet(setting.archives)
               /\ Tail(todo[c]) = SubSeq(setting.archives, (k + 1) + 1, Len(setting.archives))
               /\ found[c] \o PathsOf(Head(todo[c])) = setting.listing \o Flat[k + 1]
<1>. DEFINE n == Len(setting.archives)
<1>1. /\ setting.archives \in Seq(ArchiveRecords) /\ n \in Nat
      /\ setting.listing \in Seq(Paths)
  BY Expanding DEF ImportTyped
<1>2. PICK k \in 0..n :
         /\ todo[c] = SubSeq(setting.archives, k + 1, n)
         /\ found[c] = setting.listing \o Flat[k]
  BY DEF Progress
<1>3. k < n
  BY <1>1, <1>2
<1>4. Head(todo[c]) = setting.archives[k + 1] /\ k + 1 \in DOMAIN setting.archives
  BY <1>1, <1>2, <1>3
<1>5. Head(todo[c]) \in ToSet(setting.archives)
  BY <1>4 DEF ToSet
<1>6. Tail(todo[c]) = SubSeq(setting.archives, (k + 1) + 1, n)
  BY <1>1, <1>2, <1>3
<1>7. found[c] \o PathsOf(Head(todo[c])) = setting.listing \o Flat[k + 1]
  <2>1. PathsOf(Head(todo[c])) \in Seq(Paths)
    BY <1>5, ArchiveFacts DEF ImportTyped
  <2>2. Flat[k + 1] = Flat[k] \o PathsOf(Head(todo[c]))
    <3>1. k + 1 \in 1..Len(setting.archives) /\ (k + 1) - 1 = k
      BY <1>1, <1>3
    <3>2. Flat[k + 1] = Flat[(k + 1) - 1] \o PathsOf(setting.archives[k + 1])
      BY <3>1, Expanding DEF ImportTyped
    <3>. QED
      BY <1>4, <3>1, <3>2
  <2>3. Flat[k] \in Seq(Paths)
    BY <1>2, FlatSeq DEF ImportTyped
  <2>. QED
    <3>1. \A f, g, h \in Seq(Paths) : (f \o g) \o h = f \o (g \o h)
      OBVIOUS
    <3>2. (setting.listing \o Flat[k]) \o PathsOf(Head(todo[c]))
              = setting.listing \o (Flat[k] \o PathsOf(Head(todo[c])))
      BY <1>1, <2>1, <2>3, <3>1
    <3>. QED
      BY <1>2, <2>2, <3>2
<1>8. k \in 0..(n - 1)
  BY <1>1, <1>3
<1>. QED
  BY <1>4, <1>5, <1>6, <1>7, <1>8

\* The file whose document a call stores next, with what a read of it may give.
LEMMA Storing ==
    ASSUME ImportTyped, NEW c \in Calls, Progress(c), Store(c)
    PROVE  /\ setting' = setting /\ step[c] = "store" /\ row' = row /\ disk' = disk
           /\ found' = found /\ pending' = pending /\ deaths' = deaths
           /\ todo' = [d \in Calls |-> todo'[d]]
           /\ \A d \in Calls : d # c =>
                 step'[d] = step[d] /\ made'[d] = made[d] /\ todo'[d] = todo[d]
           /\ \/ /\ step' = step
                 /\ Head(todo[c]) \in Paths /\ todo'[c] = Tail(todo[c]) /\ todo[c] \in Seq(Paths)
                 /\ todo[c] # << >>
                 /\ made' = [made EXCEPT ![c] = Append(made[c], Len(documents) + 1)]
                 /\ \E hash \in {disk[Head(todo[c])], Null} :
                       documents' = Append(documents, [path |-> Head(todo[c]), hash |-> hash, by |-> c])
              \/ step'[c] = "fail" /\ documents' = documents /\ made' = made /\ todo' = todo
<1>1. step[c] = "store" /\ todo[c] # << >> /\ todo[c] \in Seq(Paths) /\ Head(todo[c]) \in Paths
  BY DEF Store, Progress
<1>2. UNCHANGED <<setting, row, disk, found, pending, deaths>>
  BY DEF Store
<1>3. CASE \E hash \in Hashes(Head(todo[c])) :
            /\ documents' = Append(documents, [path |-> Head(todo[c]), hash |-> hash, by |-> c])
            /\ made' = [made EXCEPT ![c] = Append(@, Len(documents'))]
            /\ todo' = [todo EXCEPT ![c] = Tail(@)]
            /\ UNCHANGED step
  <2>1. PICK hash \in Hashes(Head(todo[c])) :
            /\ documents' = Append(documents, [path |-> Head(todo[c]), hash |-> hash, by |-> c])
            /\ made' = [made EXCEPT ![c] = Append(@, Len(documents'))]
            /\ todo' = [todo EXCEPT ![c] = Tail(@)]
            /\ UNCHANGED step
    BY <1>3
  <2>2. hash \in {disk[Head(todo[c])], Null}
    BY DEF Hashes
  <2>3. Len(documents') = Len(documents) + 1
    BY <2>1 DEF ImportTyped
  <2>4. made' = [made EXCEPT ![c] = Append(made[c], Len(documents) + 1)]
    BY <2>1, <2>3
  <2>5. /\ todo' = [d \in Calls |-> todo'[d]] /\ todo'[c] = Tail(todo[c])
        /\ \A d \in Calls : d # c => made'[d] = made[d] /\ todo'[d] = todo[d]
    BY <2>1, <2>4 DEF ImportTyped
  <2>. QED
    BY <1>1, <1>2, <2>1, <2>2, <2>4, <2>5
<1>4. CASE MoveTo(c, "fail") /\ UNCHANGED <<documents, made, todo>>
  <2>1. step'[c] = "fail" /\ \A d \in Calls : d # c => step'[d] = step[d]
    BY <1>4, ImportMoves DEF CallSteps, Working
  <2>. QED
    BY <1>1, <1>2, <1>4, <2>1 DEF ImportTyped
<1>. QED
  BY <1>3, <1>4 DEF Store

\* Every action of a call but Store.
Still(c) ==
    \/ AskStart(c) \/ AskComplete(c) \/ AskExecute(c) \/ Start(c) \/ CompleteByHand(c)
    \/ ClaimJob(c) \/ Scan(c) \/ ExtractArchive(c) \/ Inflate(c) \/ BeginStore(c)
    \/ BeginEmbed(c) \/ Embed(c) \/ Commit(c) \/ Complete(c) \/ Fail(c) \/ Die(c)

LEMMA CallActions ==
    ASSUME NEW c \in Calls, Ask(c) \/ Work(c) \/ Die(c) PROVE Still(c) \/ Store(c)
  BY DEF Ask, Work, Still

LEMMA StillFrames ==
    ASSUME ImportTyped, NEW c \in Calls, Still(c)
    PROVE  /\ setting' = setting /\ documents' = documents /\ made' = made
           /\ \A d \in Calls : d # c =>
                 /\ step'[d] = step[d] /\ found'[d] = found[d] /\ todo'[d] = todo[d]
                 /\ pending'[d] = pending[d]
<1>. USE DEF ImportTyped, MoveTo, jobVars
<1>1. CASE AskStart(c) \/ AskComplete(c) \/ AskExecute(c)
  BY <1>1 DEF AskStart, AskComplete, AskExecute
<1>2. CASE Start(c) \/ CompleteByHand(c) \/ ClaimJob(c) \/ Complete(c) \/ Fail(c) \/ Die(c)
  BY <1>2 DEF Start, CompleteByHand, ClaimJob, Complete, Fail, Die
<1>3. CASE Scan(c)
  BY <1>3 DEF Scan
<1>4. CASE ExtractArchive(c)
  BY <1>4 DEF ExtractArchive, Refuse
<1>5. CASE Inflate(c) \/ BeginStore(c)
  BY <1>5 DEF Inflate, BeginStore
<1>6. CASE BeginEmbed(c) \/ Embed(c) \/ Commit(c)
  BY <1>6 DEF BeginEmbed, Embed, Commit, SkipUnreadable, EmbedFails, EmbedDocument, Flush
<1>. QED
  BY <1>1, <1>2, <1>3, <1>4, <1>5, <1>6 DEF Still

LEMMA Written ==
    ASSUME ImportTyped, NEW a \in ToSet(setting.archives)
    PROVE  /\ Opened(a) \in [Paths -> Contents \cup {Null, Torn}]
           /\ Extracted(a) \in [Paths -> Contents \cup {Null, Torn}]
           /\ \A p \in Paths :
                 /\ Opened(a)[p] = Torn => disk[p] = Torn \/ Named(a, p) # {}
                 /\ Extracted(a)[p] = Torn => disk[p] = Torn /\ Named(a, p) = {}
<1>1. ASSUME NEW p \in Paths PROVE Named(a, p) # {} => FilesOf(a)[Max(Named(a, p))].content \in Contents
  BY ArchiveFacts DEF ImportTyped
<1>. QED
  BY <1>1, TornAssumption DEF Opened, Extracted, ImportTyped

LEMMA StillTypes ==
    ASSUME ImportBase, NEW c \in Calls, Still(c) PROVE ImportTyped'
<1>1. ImportTyped /\ Progress(c) /\ setting' = setting /\ documents' = documents /\ made' = made
  BY StillFrames DEF ImportBase
<1>. USE DEF ImportTyped
<1>2. CASE AskStart(c) \/ AskComplete(c) \/ AskExecute(c)
  <2>1. PICK s \in {"start", "byHand", "claim", "done"} : MoveTo(c, s)
    BY <1>2 DEF AskStart, AskComplete, AskExecute
  <2>2. step' \in [Calls -> CallSteps]
    BY <1>1, <2>1, ImportMoves DEF CallSteps, Working, Ended
  <2>3. UNCHANGED <<row, disk, found, todo, pending>>
    BY <1>2 DEF AskStart, AskComplete, AskExecute, jobVars
  <2>. QED
    BY <1>1, <2>2, <2>3
<1>3. CASE Start(c) \/ CompleteByHand(c) \/ ClaimJob(c) \/ Complete(c) \/ Fail(c) \/ Die(c)
  <2>1. PICK s \in {"done", "scan", "dead"} : MoveTo(c, s)
    BY <1>3 DEF Start, CompleteByHand, ClaimJob, Complete, Fail, Die
  <2>2. step' \in [Calls -> CallSteps]
    BY <1>1, <2>1, ImportMoves DEF CallSteps, Working, Ended
  <2>3. /\ UNCHANGED <<disk, found, todo>> /\ pending' \in [Calls -> Nat \cup {Null}]
        /\ row' = row \/ \E v \in Life!ImportStatus : SetStatus(v)
    BY <1>1, <1>3 DEF Start, CompleteByHand, ClaimJob, Complete, Fail, Die, jobVars,
       Life!ImportStatus
  <2>4. row' \in Jobs
    BY <1>1, <2>3 DEF SetStatus, Jobs
  <2>. QED
    BY <1>1, <2>2, <2>3, <2>4
<1>4. CASE Scan(c)
  <2>1. PICK s \in {"fail", "extract"} : MoveTo(c, s)
    BY <1>4 DEF Scan
  <2>2. step' \in [Calls -> CallSteps]
    BY <1>1, <2>1, ImportMoves DEF CallSteps, Working, Ended
  <2>3. UNCHANGED <<row, disk, pending>>
    BY <1>4 DEF Scan, jobVars
  <2>4. setting.listing \in Seq(Paths)
    BY <1>1, Expanding
  <2>5. found' \in [Calls -> Seq(Paths)] /\ todo' = [d \in Calls |-> todo'[d]]
    BY <1>1, <1>4, <2>4 DEF Scan
  <2>. QED
    BY <1>1, <2>2, <2>3, <2>5
<1>5. CASE ExtractArchive(c)
  <2>1. PICK s \in {"fail", "inflate"} : MoveTo(c, s)
    BY <1>5 DEF ExtractArchive, Refuse
  <2>2. step' \in [Calls -> CallSteps]
    BY <1>1, <2>1, ImportMoves DEF CallSteps, Working, Ended
  <2>3. Head(todo[c]) \in ToSet(setting.archives)
    BY <1>1, <1>5, Extracting DEF ExtractArchive
  <2>4. UNCHANGED <<row, found, todo, pending>> /\ disk' \in {disk, Opened(Head(todo[c]))}
    BY <1>5 DEF ExtractArchive, Refuse
  <2>5. disk' \in [Paths -> Contents \cup {Null, Torn}]
    BY <1>1, <2>3, <2>4, Written
  <2>. QED
    BY <1>1, <2>2, <2>4, <2>5
<1>6. CASE Inflate(c)
  <2>1. PICK s \in {"fail", "extract"} : MoveTo(c, s)
    BY <1>6 DEF Inflate
  <2>2. todo[c] # << >> /\ step[c] = "inflate"
    BY <1>1, <1>6 DEF Inflate, Progress
  <2>3. step' \in [Calls -> CallSteps]
    BY <1>1, <2>1, ImportMoves DEF CallSteps, Working, Ended
  <2>4. Head(todo[c]) \in ToSet(setting.archives)
    BY <1>1, <2>2, Extracting
  <2>5. disk' \in {disk, Extracted(Head(todo[c]))}
    BY <1>6 DEF Inflate
  <2>6. disk' \in [Paths -> Contents \cup {Null, Torn}]
    BY <1>1, <2>4, <2>5, Written
  <2>7. found' \in [Calls -> Seq(Paths)] /\ todo' = [d \in Calls |-> todo'[d]]
    <3>1. found[c] \o PathsOf(Head(todo[c])) \in Seq(Paths)
      BY <1>1, <2>4, ArchiveFacts
    <3>2. \/ /\ found' = [found EXCEPT ![c] = found[c] \o PathsOf(Head(todo[c]))]
             /\ todo' = [todo EXCEPT ![c] = Tail(todo[c])]
          \/ found' = found /\ todo' = todo
      BY <1>6 DEF Inflate
    <3>. QED
      BY <1>1, <3>1, <3>2
  <2>8. UNCHANGED <<row, pending>>
    BY <1>6 DEF Inflate
  <2>. QED
    BY <1>1, <2>3, <2>6, <2>7, <2>8
<1>7. CASE BeginStore(c) \/ BeginEmbed(c)
  <2>1. PICK s \in {"store", "embed"} : MoveTo(c, s)
    BY <1>7 DEF BeginStore, BeginEmbed
  <2>2. step' \in [Calls -> CallSteps]
    BY <1>1, <2>1, ImportMoves DEF CallSteps, Working, Ended
  <2>3. UNCHANGED <<row, disk, found>> /\ todo' = [d \in Calls |-> todo'[d]]
    BY <1>1, <1>7 DEF BeginStore, BeginEmbed, jobVars
  <2>4. Len(found[c]) \in Nat
    BY <1>1
  <2>5. pending' \in [Calls -> Nat \cup {Null}]
    BY <1>1, <1>7, <2>4 DEF BeginStore, BeginEmbed
  <2>. QED
    BY <1>1, <2>2, <2>3, <2>5
<1>8. CASE Embed(c) \/ Commit(c)
  <2>1. step' = step \/ \E s \in {"complete", "fail"} : MoveTo(c, s)
    BY <1>8 DEF Embed, Commit
  <2>2. step' \in [Calls -> CallSteps]
    BY <1>1, <2>1, ImportMoves DEF CallSteps, Working, Ended
  <2>3. UNCHANGED <<disk, found>> /\ todo' = [d \in Calls |-> todo'[d]]
    BY <1>1, <1>8 DEF Embed, Commit
  <2>4. \/ UNCHANGED <<row, pending>>
        \/ row' = row /\ pending' = [pending EXCEPT ![c] = Null]
        \/ Flush(c)
    BY <1>8 DEF Embed, Commit, SkipUnreadable, EmbedFails, EmbedDocument
  <2>5. row' \in Jobs /\ pending' \in [Calls -> Nat \cup {Null}]
    <3>1. pending[c] \in Nat \cup {Null}
      BY <1>1
    <3>. QED
      BY <1>1, <2>4, <3>1 DEF Flush, Jobs
  <2>. QED
    BY <1>1, <2>2, <2>3, <2>5
<1>. QED
  BY <1>2, <1>3, <1>4, <1>5, <1>6, <1>7, <1>8 DEF Still

LEMMA StoreTypes ==
    ASSUME ImportBase, NEW c \in Calls, Store(c) PROVE ImportTyped'
<1>1. ImportTyped /\ Progress(c)
  BY DEF ImportBase
<1>. USE DEF ImportTyped
<1>2. UNCHANGED <<setting, row, disk, found, pending>> /\ todo' = [d \in Calls |-> todo'[d]]
  BY <1>1, Storing
<1>3. step' \in [Calls -> CallSteps]
  BY <1>1, ImportMoves DEF Store, CallSteps, Working
<1>4. CASE step'[c] = "fail" /\ documents' = documents /\ made' = made
  BY <1>1, <1>2, <1>3, <1>4
<1>5. CASE /\ Head(todo[c]) \in Paths
           /\ made' = [made EXCEPT ![c] = Append(made[c], Len(documents) + 1)]
           /\ \E hash \in {disk[Head(todo[c])], Null} :
                 documents' = Append(documents, [path |-> Head(todo[c]), hash |-> hash, by |-> c])
  <2>1. PICK hash \in {disk[Head(todo[c])], Null} :
                 documents' = Append(documents, [path |-> Head(todo[c]), hash |-> hash, by |-> c])
    BY <1>5
  <2>2. hash \in Contents \cup {Null, Torn}
    BY <1>1, <1>5
  <2>3. [path |-> Head(todo[c]), hash |-> hash, by |-> c] \in Documents
    BY <1>5, <2>2 DEF Documents
  <2>4. /\ documents' \in Seq(Documents) /\ Len(documents') = Len(documents) + 1
        /\ Len(documents) + 1 \in Nat
    BY <1>1, <2>1, <2>3
  <2>5. made' \in [Calls -> Seq(Nat)]
    BY <1>1, <1>5, <2>4
  <2>6. ASSUME NEW d \in Calls PROVE ToSet(made'[d]) \subseteq DOMAIN documents'
    <3>1. DOMAIN documents' = DOMAIN documents \cup {Len(documents) + 1}
      BY <1>1, <2>4
    <3>2. made[d] \in Seq(Nat) /\ ToSet(made[d]) \subseteq DOMAIN documents
      BY <1>1
    <3>3. CASE d = c
      <4>1. made'[d] = Append(made[d], Len(documents) + 1)
        BY <1>1, <1>5, <3>3
      <4>2. ToSet(made'[d]) \subseteq ToSet(made[d]) \cup {Len(documents) + 1}
        BY <2>4, <3>2, <4>1 DEF ToSet
      <4>. QED
        BY <3>1, <3>2, <4>2
    <3>4. CASE d # c
      BY <1>1, <1>5, <3>1, <3>2, <3>4
    <3>. QED
      BY <3>3, <3>4
  <2>. QED
    BY <1>1, <1>2, <1>3, <2>4, <2>5, <2>6
<1>. QED
  BY <1>1, <1>4, <1>5, Storing

LEMMA StoreAppends ==
    ASSUME ImportTyped, NEW c \in Calls, Progress(c), Store(c)
    PROVE  documents' = documents \/ \E r \in Documents : documents' = Append(documents, r)
<1>1. CASE /\ Head(todo[c]) \in Paths
           /\ \E hash \in {disk[Head(todo[c])], Null} :
                 documents' = Append(documents, [path |-> Head(todo[c]), hash |-> hash, by |-> c])
  <2>1. PICK hash \in {disk[Head(todo[c])], Null} :
                 documents' = Append(documents, [path |-> Head(todo[c]), hash |-> hash, by |-> c])
    BY <1>1
  <2>2. hash \in Contents \cup {Null, Torn}
    BY <1>1 DEF ImportTyped
  <2>3. [path |-> Head(todo[c]), hash |-> hash, by |-> c] \in Documents
    BY <1>1, <2>2 DEF Documents
  <2>. QED
    BY <2>1, <2>3
<1>. QED
  BY <1>1, Storing

\* What depends on the source alone does not change.
LEMMA SourceStays ==
    ASSUME setting' = setting
    PROVE  /\ Flat' = Flat /\ Everything' = Everything
           /\ Documentable(Everything)' = Documentable(Everything)
<1>1. Expansion' = Expansion
  BY DEF Expansion
<1>2. Flat' = Flat
  BY <1>1 DEF Flat
<1>3. Everything' = Everything
  BY DEF Everything
<1>4. Containers' = Containers
  BY DEF Containers
<1>. QED
  BY <1>2, <1>3, <1>4 DEF Documentable

LEMMA StoredSeq ==
    ASSUME ImportTyped, NEW c \in Calls
    PROVE  StoredPaths(c) \in Seq(Paths)
<1>1. made[c] \in Seq(Nat) /\ documents \in Seq(Documents)
  BY DEF ImportTyped
<1>2. \A i \in 1..Len(made[c]) : made[c][i] \in DOMAIN documents
  BY <1>1 DEF ImportTyped, ToSet
<1>3. \A r \in Documents : r.path \in Paths
  BY DEF Documents
<1>4. \A i \in DOMAIN documents : documents[i] \in Documents
  BY <1>1
<1>5. \A i \in 1..Len(made[c]) : documents[made[c][i]].path \in Paths
  BY <1>2, <1>3, <1>4
<1>6. StoredPaths(c) = [i \in 1..Len(made[c]) |-> documents[made[c][i]].path]
  BY <1>1 DEF StoredPaths
<1>. QED
  BY <1>1, <1>5, <1>6

LEMMA SecondPart ==
    ASSUME NEW X, NEW s \in Seq(X), NEW t \in Seq(X), NEW i \in (Len(s) + 1)..(Len(s) + Len(t))
    PROVE  (s \o t)[i] = t[i - Len(s)]
<1>1. Len(s) \in Nat /\ Len(t) \in Nat /\ i \in 1..(Len(s) + Len(t)) /\ ~(i <= Len(s))
  OBVIOUS
<1>. QED
  BY <1>1

\* The first element of one sequence moved to the end of the one before it.
LEMMA OneByOne ==
    ASSUME NEW X, NEW s \in Seq(X), NEW t \in Seq(X), t # << >>
    PROVE  Append(s, Head(t)) \o Tail(t) = s \o t
<1>. DEFINE a == Append(s, Head(t))
<1>1. /\ a \in Seq(X) /\ Len(a) = Len(s) + 1
      /\ Tail(t) \in Seq(X) /\ Len(Tail(t)) = Len(t) - 1
      /\ Head(t) = t[1] /\ Len(t) \in Nat \ {0} /\ Len(s) \in Nat
  OBVIOUS
<1>2. /\ \A i \in 1..Len(s) : a[i] = s[i]
      /\ a[Len(s) + 1] = t[1]
      /\ \A i \in 1..(Len(t) - 1) : Tail(t)[i] = t[i + 1]
  BY <1>1
<1>. HIDE DEF a
<1>3. /\ a \o Tail(t) \in Seq(X) /\ s \o t \in Seq(X)
      /\ Len(a \o Tail(t)) = Len(s) + Len(t) /\ Len(s \o t) = Len(s) + Len(t)
  BY <1>1
<1>4. ASSUME NEW i \in 1..(Len(s) + Len(t)) PROVE (a \o Tail(t))[i] = (s \o t)[i]
  <2>1. CASE i <= Len(s)
    BY <1>1, <1>2, <2>1
  <2>2. CASE i = Len(s) + 1
    BY <1>1, <1>2, <2>2
  <2>3. CASE i > Len(s) + 1
    <3>0. /\ Tail(t) \in Seq(X) /\ a \in Seq(X)
          /\ i \in (Len(a) + 1)..(Len(a) + Len(Tail(t)))
          /\ i \in (Len(s) + 1)..(Len(s) + Len(t))
      BY <1>1, <2>3
    <3>1. (a \o Tail(t))[i] = Tail(t)[i - (Len(s) + 1)]
      <4>1. (a \o Tail(t))[i] = Tail(t)[i - Len(a)]
        BY <3>0, SecondPart
      <4>. QED
        BY <1>1, <4>1
    <3>2. (s \o t)[i] = t[i - Len(s)]
      BY <3>0, SecondPart
    <3>3. i - (Len(s) + 1) \in 1..(Len(t) - 1) /\ (i - (Len(s) + 1)) + 1 = i - Len(s)
      BY <1>1, <2>3
    <3>. QED
      BY <1>2, <3>1, <3>2, <3>3
  <2>. QED
    BY <1>1, <2>1, <2>2, <2>3
<1>5. a \o Tail(t) = s \o t
  BY <1>3, <1>4
<1>. QED
  BY <1>5 DEF a

\* Documents are only added.
LEMMA StoredStays ==
    ASSUME ImportTyped, NEW d \in Calls, made'[d] = made[d], setting' = setting,
           documents' = documents \/ \E r \in Documents : documents' = Append(documents, r)
    PROVE  /\ StoredPaths(d)' = StoredPaths(d)
           /\ StoredAll(d)' <=> StoredAll(d)
           /\ \A i \in ToSet(made[d]) : documents'[i] = documents[i]
<1>1. ASSUME NEW i \in DOMAIN documents PROVE documents'[i] = documents[i]
  <2>1. documents \in Seq(Documents)
    BY DEF ImportTyped
  <2>2. CASE documents' = documents
    BY <2>2
  <2>3. ASSUME NEW r \in Documents, documents' = Append(documents, r)
        PROVE  documents'[i] = documents[i]
    BY <2>1, <2>3
  <2>. QED
    BY <2>2, <2>3
<1>2. \A i \in ToSet(made[d]) : documents'[i] = documents[i]
  BY <1>1 DEF ImportTyped
<1>3. \A i \in DOMAIN made[d] : documents'[made[d][i]] = documents[made[d][i]]
  BY <1>2 DEF ToSet
<1>4. StoredPaths(d)' = StoredPaths(d)
  BY <1>3 DEF StoredPaths
<1>5. StoredAll(d) <=> StoredPaths(d) = Documentable(Everything)
  BY DEF StoredAll, StoredPaths
<1>6. StoredAll(d)' <=> StoredPaths(d)' = Documentable(Everything)'
  BY DEF StoredAll, StoredPaths
<1>. QED
  BY <1>2, <1>4, <1>5, <1>6, SourceStays

LEMMA ProgressStays ==
    ASSUME ImportTyped, NEW d \in Calls, Progress(d), setting' = setting,
           step'[d] = step[d], found'[d] = found[d], todo'[d] = todo[d], made'[d] = made[d],
           documents' = documents \/ \E r \in Documents : documents' = Append(documents, r)
    PROVE  Progress(d)'
  BY StoredStays, SourceStays DEF Progress

LEMMA StillProgress ==
    ASSUME ImportBase, NEW c \in Calls, Still(c) PROVE Progress(c)'
<1>1. /\ ImportTyped /\ Progress(c) /\ setting' = setting /\ documents' = documents /\ made' = made
      /\ Flat' = Flat /\ Everything' = Everything
      /\ Documentable(Everything)' = Documentable(Everything)
  BY StillFrames, SourceStays DEF ImportBase
<1>2. StoredPaths(c)' = StoredPaths(c) /\ (StoredAll(c)' <=> StoredAll(c))
  BY <1>1, StoredStays
<1>3. setting.archives \in Seq(ArchiveRecords) /\ setting.listing \in Seq(Paths)
  BY <1>1, Expanding DEF ImportTyped
<1>4. CASE AskStart(c) \/ AskComplete(c) \/ AskExecute(c)
  <2>1. step[c] = "idle" /\ \E s \in {"start", "byHand", "claim", "done"} : MoveTo(c, s)
    BY <1>4 DEF AskStart, AskComplete, AskExecute, MayCall
  <2>2. step'[c] \in {"start", "byHand", "claim", "done"}
    BY <1>1, <2>1, ImportMoves DEF CallSteps, Working, Ended
  <2>. QED
    BY <1>1, <2>1, <2>2 DEF Progress
<1>5. CASE Start(c) \/ CompleteByHand(c) \/ Complete(c) \/ Fail(c) \/ Die(c)
  <2>1. \E s \in {"done", "dead"} : MoveTo(c, s)
    BY <1>5 DEF Start, CompleteByHand, Complete, Fail, Die
  <2>2. step'[c] \in {"done", "dead"}
    BY <1>1, <2>1, ImportMoves DEF CallSteps, Ended
  <2>. QED
    BY <1>1, <2>2 DEF Progress
<1>6. CASE ClaimJob(c)
  <2>1. step[c] = "claim" /\ step'[c] = "scan"
    BY <1>1, <1>6, ImportMoves DEF ClaimJob, CallSteps, Working
  <2>. QED
    BY <1>1, <2>1 DEF Progress
<1>7. CASE Scan(c)
  <2>1. step[c] = "scan" /\ made[c] = << >>
    BY <1>1, <1>7 DEF Scan, Progress
  <2>2. CASE MoveTo(c, "fail")
    <3>1. step'[c] = "fail"
      BY <1>1, <2>2, ImportMoves DEF CallSteps, Working
    <3>. QED
      BY <1>1, <3>1 DEF Progress
  <2>3. CASE /\ MoveTo(c, "extract")
             /\ found' = [found EXCEPT ![c] = setting.listing]
             /\ todo' = [todo EXCEPT ![c] = setting.archives]
    <3>1. step'[c] = "extract"
      BY <1>1, <2>3, ImportMoves DEF CallSteps, Working
    <3>2. found'[c] = setting.listing /\ todo'[c] = setting.archives
      BY <1>1, <2>3 DEF ImportTyped
    <3>3. /\ 0 \in 0..Len(setting.archives)
          /\ setting.archives = SubSeq(setting.archives, 0 + 1, Len(setting.archives))
      BY <1>3
    <3>4. Flat[0] = << >> /\ setting.listing \o << >> = setting.listing
      BY <1>1, <1>3, Expanding DEF ImportTyped
    <3>5. \E k \in 0..Len(setting'.archives) :
              /\ todo'[c] = SubSeq(setting'.archives, k + 1, Len(setting'.archives))
              /\ found'[c] = setting'.listing \o Flat'[k]
      BY <1>1, <3>2, <3>3, <3>4
    <3>. QED
      BY <1>1, <2>1, <3>1, <3>5 DEF Progress
  <2>. QED
    BY <1>7, <2>2, <2>3 DEF Scan
<1>8. CASE ExtractArchive(c)
  <2>1. /\ step[c] = "extract" /\ todo[c] # << >> /\ found' = found /\ todo' = todo
        /\ \E s \in {"fail", "inflate"} : MoveTo(c, s)
    BY <1>8 DEF ExtractArchive, Refuse
  <2>2. step'[c] \in {"fail", "inflate"}
    BY <1>1, <2>1, ImportMoves DEF CallSteps, Working
  <2>. QED
    BY <1>1, <2>1, <2>2 DEF Progress
<1>9. CASE Inflate(c) /\ MoveTo(c, "extract")
  <2>1. step[c] = "inflate" /\ todo[c] # << >> /\ made[c] = << >>
    BY <1>1, <1>9 DEF Inflate, Progress
  <2>2. step'[c] = "extract"
    BY <1>1, <1>9, ImportMoves DEF CallSteps, Working
  <2>3. ~MoveTo(c, "fail")
    BY <1>1, <2>2, ImportMoves DEF CallSteps, Working
  <2>4. /\ found' = [found EXCEPT ![c] = found[c] \o PathsOf(Head(todo[c]))]
        /\ todo' = [todo EXCEPT ![c] = Tail(todo[c])]
    BY <1>9, <2>3 DEF Inflate
  <2>5. todo'[c] = Tail(todo[c]) /\ found'[c] = found[c] \o PathsOf(Head(todo[c]))
    BY <1>1, <2>4 DEF ImportTyped
  <2>6. PICK k \in 0..(Len(setting.archives) - 1) :
            /\ Tail(todo[c]) = SubSeq(setting.archives, (k + 1) + 1, Len(setting.archives))
            /\ found[c] \o PathsOf(Head(todo[c])) = setting.listing \o Flat[k + 1]
    BY <1>1, <2>1, Extracting
  <2>7. k + 1 \in 0..Len(setting.archives)
    BY <1>3, <2>6
  <2>8. \E j \in 0..Len(setting'.archives) :
            /\ todo'[c] = SubSeq(setting'.archives, j + 1, Len(setting'.archives))
            /\ found'[c] = setting'.listing \o Flat'[j]
    BY <1>1, <2>5, <2>6, <2>7
  <2>. QED
    BY <1>1, <2>1, <2>2, <2>8 DEF Progress
<1>9a. CASE Inflate(c) /\ ~MoveTo(c, "extract")
  <2>1. step'[c] = "fail"
    BY <1>1, <1>9a, ImportMoves DEF Inflate, CallSteps, Working
  <2>. QED
    BY <1>1, <2>1 DEF Progress
<1>10. CASE BeginStore(c)
  <2>1. /\ step[c] = "extract" /\ todo[c] = << >> /\ MoveTo(c, "store") /\ found' = found
        /\ todo' = [todo EXCEPT ![c] = Documentable(found[c])] /\ made[c] = << >>
    BY <1>1, <1>10 DEF BeginStore, Progress
  <2>2. step'[c] = "store" /\ todo'[c] = Documentable(found[c])
    BY <1>1, <2>1, ImportMoves DEF CallSteps, Working, ImportTyped
  <2>3. found[c] = Everything
    <3>1. PICK k \in 0..Len(setting.archives) :
              /\ << >> = SubSeq(setting.archives, k + 1, Len(setting.archives))
              /\ found[c] = setting.listing \o Flat[k]
      BY <1>1, <2>1 DEF Progress
    <3>2. k = Len(setting.archives)
      <4>1. SUFFICES ASSUME k < Len(setting.archives) PROVE FALSE
        BY <1>3
      <4>2. Len(SubSeq(setting.archives, k + 1, Len(setting.archives))) = Len(setting.archives) - k
        BY <1>3, <4>1
      <4>3. Len(<< >>) = 0
        OBVIOUS
      <4>. QED
        BY <1>3, <3>1, <4>1, <4>2, <4>3
    <3>. QED
      BY <1>1, <3>1, <3>2, Expanding DEF ImportTyped
  <2>4. Documentable(Everything) \in Seq(Paths)
    <3>1. Everything \in Seq(Paths)
      BY <1>1, <2>3 DEF ImportTyped
    <3>2. Documentable(Everything) \in Seq(Paths \cap (Paths \ Containers))
      BY <3>1, KeptSeq DEF Documentable
    <3>. QED
      BY <3>2
  <2>5. StoredPaths(c) = << >>
    BY <2>1 DEF StoredPaths
  <2>6. StoredPaths(c) \o Documentable(Everything) = Documentable(Everything)
    BY <2>4, <2>5
  <2>. QED
    BY <1>1, <1>2, <2>1, <2>2, <2>3, <2>4, <2>6 DEF Progress
<1>11. CASE BeginEmbed(c)
  <2>1. /\ step[c] = "store" /\ todo[c] = << >> /\ MoveTo(c, "embed") /\ found' = found
        /\ todo' = [todo EXCEPT ![c] = made[c]]
    BY <1>11 DEF BeginEmbed
  <2>2. step'[c] = "embed" /\ todo'[c] = made[c] /\ made[c] \in Seq(Nat)
    BY <1>1, <2>1, ImportMoves DEF CallSteps, Working, ImportTyped
  <2>3. StoredAll(c)
    <3>1. StoredPaths(c) \o << >> = Documentable(Everything)
      BY <1>1, <2>1 DEF Progress
    <3>2. StoredPaths(c) \in Seq(Paths)
      BY <1>1, StoredSeq
    <3>3. StoredPaths(c) = Documentable(Everything)
      BY <3>1, <3>2
    <3>. QED
      BY <3>3 DEF StoredAll, StoredPaths
  <2>. QED
    BY <1>1, <1>2, <2>1, <2>2, <2>3 DEF Progress
<1>12. CASE Embed(c)
  <2>1. /\ step[c] = "embed" /\ todo[c] # << >> /\ step' = step /\ found' = found
        /\ todo' = [todo EXCEPT ![c] = Tail(todo[c])]
    BY <1>12 DEF Embed
  <2>2. todo'[c] = Tail(todo[c]) /\ todo[c] \in Seq(Nat)
    BY <1>1, <2>1 DEF ImportTyped, Progress
  <2>3. todo'[c] \in Seq(Nat)
    BY <2>1, <2>2
  <2>. QED
    BY <1>1, <1>2, <2>1, <2>3 DEF Progress
<1>13. CASE Commit(c)
  <2>1. step[c] = "embed" /\ found' = found /\ \E s \in {"complete", "fail"} : MoveTo(c, s)
    BY <1>13 DEF Commit
  <2>2. step'[c] \in {"complete", "fail"}
    BY <1>1, <2>1, ImportMoves DEF CallSteps, Working
  <2>. QED
    BY <1>1, <1>2, <2>1, <2>2 DEF Progress
<1>. QED
  BY <1>4, <1>5, <1>6, <1>7, <1>8, <1>9, <1>9a, <1>10, <1>11, <1>12, <1>13 DEF Still

LEMMA StoreProgress ==
    ASSUME ImportBase, NEW c \in Calls, Store(c) PROVE Progress(c)'
<1>1. /\ ImportTyped /\ Progress(c) /\ setting' = setting /\ step[c] = "store"
      /\ found' = found /\ found[c] = Everything
      /\ Everything' = Everything /\ Documentable(Everything)' = Documentable(Everything)
  BY Storing, SourceStays DEF ImportBase, Progress
<1>2. CASE step'[c] = "fail"
  BY <1>1, <1>2 DEF Progress
<1>3. CASE /\ step' = step
           /\ Head(todo[c]) \in Paths /\ todo'[c] = Tail(todo[c]) /\ todo[c] \in Seq(Paths)
           /\ todo[c] # << >>
           /\ made' = [made EXCEPT ![c] = Append(made[c], Len(documents) + 1)]
           /\ \E hash \in {disk[Head(todo[c])], Null} :
                 documents' = Append(documents, [path |-> Head(todo[c]), hash |-> hash, by |-> c])
  <2>1. PICK hash : documents' = Append(documents, [path |-> Head(todo[c]), hash |-> hash, by |-> c])
    BY <1>3
  <2>2. /\ made[c] \in Seq(Nat) /\ \A i \in DOMAIN made[c] : made[c][i] \in DOMAIN documents
        /\ documents \in Seq(Documents)
    BY <1>1 DEF ImportTyped, ToSet
  <2>3. made'[c] = Append(made[c], Len(documents) + 1)
    BY <1>1, <1>3 DEF ImportTyped
  <2>4. /\ \A i \in DOMAIN documents : documents'[i] = documents[i]
        /\ documents'[Len(documents) + 1].path = Head(todo[c])
    BY <2>1, <2>2
  <2>5. StoredPaths(c) \in Seq(Paths)
    BY <1>1, StoredSeq
  <2>6. StoredPaths(c)' = Append(StoredPaths(c), Head(todo[c]))
    <3>1. /\ Len(StoredPaths(c)) = Len(made[c])
          /\ \A i \in 1..Len(made[c]) : StoredPaths(c)[i] = documents[made[c][i]].path
      BY <2>2 DEF StoredPaths
    <3>2. DOMAIN made'[c] = 1..(Len(made[c]) + 1)
      BY <2>2, <2>3
    <3>3. ASSUME NEW i \in 1..(Len(made[c]) + 1)
          PROVE  documents'[made'[c][i]].path = Append(StoredPaths(c), Head(todo[c]))[i]
      <4>1. CASE i = Len(made[c]) + 1
        <5>1. made'[c][i] = Len(documents) + 1
          BY <2>2, <2>3, <4>1
        <5>2. Append(StoredPaths(c), Head(todo[c]))[i] = Head(todo[c])
          BY <2>5, <3>1, <4>1
        <5>. QED
          BY <2>4, <5>1, <5>2
      <4>2. CASE i # Len(made[c]) + 1
        <5>1. i \in 1..Len(made[c]) /\ made'[c][i] = made[c][i]
          BY <2>2, <2>3, <4>2
        <5>2. Append(StoredPaths(c), Head(todo[c]))[i] = documents[made[c][i]].path
          BY <2>5, <3>1, <5>1
        <5>3. made[c][i] \in DOMAIN documents
          BY <2>2, <5>1
        <5>. QED
          BY <2>4, <5>1, <5>2, <5>3
      <4>. QED
        BY <4>1, <4>2
    <3>4. StoredPaths(c)' = [i \in 1..(Len(made[c]) + 1) |-> documents'[made'[c][i]].path]
      BY <3>2 DEF StoredPaths
    <3>5. /\ Append(StoredPaths(c), Head(todo[c])) \in Seq(Paths)
          /\ Len(Append(StoredPaths(c), Head(todo[c]))) = Len(made[c]) + 1
      BY <1>3, <2>5, <3>1
    <3>. QED
      BY <3>3, <3>4, <3>5
  <2>7. Append(StoredPaths(c), Head(todo[c])) \o Tail(todo[c]) = StoredPaths(c) \o todo[c]
    BY <1>3, <2>5, OneByOne
  <2>8. todo'[c] \in Seq(Paths)
    BY <1>3
  <2>. QED
    BY <1>1, <1>3, <2>6, <2>7, <2>8 DEF Progress
<1>. QED
  BY <1>1, <1>2, <1>3, Storing

LEMMA ImportBaseInit ==
    ASSUME ImportInit PROVE ImportBase
<1>1. setting \in Settings /\ setting.source \in [Paths -> Contents \cup {Null}]
  BY SettingsAssumption DEF ImportInit
<1>2. row \in Jobs
  BY DEF ImportInit, Jobs, Life!ImportStatus
<1>3. /\ documents = << >> /\ << >> \in Seq(Documents) /\ << >> \in Seq(Paths) /\ << >> \in Seq(Nat)
      /\ step \in [Calls -> CallSteps] /\ \A c \in Calls : step[c] = "idle" /\ made[c] = << >>
  BY DEF ImportInit, CallSteps
<1>4. /\ disk \in [Paths -> Contents \cup {Null, Torn}]
      /\ found \in [Calls -> Seq(Paths)] /\ todo = [c \in Calls |-> todo[c]]
      /\ made \in [Calls -> Seq(Nat)] /\ pending \in [Calls -> Nat \cup {Null}]
  BY <1>1, <1>3 DEF ImportInit
<1>5. \A c \in Calls : ToSet(made[c]) \subseteq DOMAIN documents
  BY <1>3 DEF ToSet
<1>6. ImportTyped
  BY <1>1, <1>2, <1>3, <1>4, <1>5 DEF ImportTyped
<1>. QED
  BY <1>3, <1>6 DEF ImportBase, Progress

LEMMA ImportBaseStep ==
    ASSUME ImportBase, [ImportNext]_importVars PROVE ImportBase'
<1>1. CASE UNCHANGED importVars
  <2>1. /\ ImportTyped /\ setting' = setting /\ row' = row /\ documents' = documents /\ disk' = disk
        /\ step' = step /\ found' = found /\ todo' = todo /\ made' = made /\ pending' = pending
    BY <1>1 DEF ImportBase, importVars
  <2>2. ImportTyped'
    BY <2>1 DEF ImportTyped
  <2>3. ASSUME NEW d \in Calls PROVE Progress(d)'
    BY <2>1, ProgressStays DEF ImportBase
  <2>. QED
    BY <2>2, <2>3 DEF ImportBase
<1>2. ASSUME NEW c \in Calls, Still(c) PROVE ImportBase'
  <2>1. /\ ImportTyped /\ setting' = setting /\ documents' = documents /\ made' = made
        /\ \A d \in Calls : d # c =>
              step'[d] = step[d] /\ found'[d] = found[d] /\ todo'[d] = todo[d]
    BY <1>2, StillFrames DEF ImportBase
  <2>2. ASSUME NEW d \in Calls PROVE Progress(d)'
    <3>1. CASE d = c
      BY <1>2, <3>1, StillProgress
    <3>2. CASE d # c
      BY <2>1, <3>2, ProgressStays DEF ImportBase
    <3>. QED
      BY <3>1, <3>2
  <2>. QED
    BY <1>2, <2>2, StillTypes DEF ImportBase
<1>3. ASSUME NEW c \in Calls, Store(c) PROVE ImportBase'
  <2>1. /\ ImportTyped /\ setting' = setting /\ found' = found
        /\ \A d \in Calls : d # c =>
              step'[d] = step[d] /\ made'[d] = made[d] /\ todo'[d] = todo[d]
    BY <1>3, Storing DEF ImportBase
  <2>2. documents' = documents \/ \E r \in Documents : documents' = Append(documents, r)
    BY <1>3, StoreAppends DEF ImportBase
  <2>3. ASSUME NEW d \in Calls PROVE Progress(d)'
    <3>1. CASE d = c
      BY <1>3, <3>1, StoreProgress
    <3>2. CASE d # c
      BY <2>1, <2>2, <3>2, ProgressStays DEF ImportBase
    <3>. QED
      BY <3>1, <3>2
  <2>. QED
    BY <1>3, <2>3, StoreTypes DEF ImportBase
<1>. QED
  BY <1>1, <1>2, <1>3, CallActions DEF ImportNext

\* A call that has the job to itself knows its status.
SoleCall ==
    /\ \A c \in Calls : \A d \in Calls : c # d /\ step[c] \notin Rest => step[d] \in Rest
    /\ \A c \in Calls :
        /\ step[c] = "start" => row.status \in Life!Startable
        /\ step[c] = "claim" => Executable(row.status)
        /\ step[c] \in ({"byHand"} \cup Working) \ {"claim"} => row.status = "RUNNING"

\* How the calls move the status of the row, and which of them touch the files.
LEMMA RowMoves ==
    ASSUME ImportTyped, NEW c \in Calls, Still(c) \/ Store(c), step[c] # "store" \/ Progress(c)
    PROVE  /\ step[c] \notin Ended
           /\ step[c] = "idle" => row' = row
           /\ \/ row'.status = row.status
              \/ step[c] \in {"start", "claim"} /\ row'.status = "RUNNING"
              \/ step[c] \in {"byHand", "complete"} /\ row'.status = "COMPLETED"
              \/ step[c] = "fail" /\ row'.status = "FAILED"
           /\ row'.status # row.status => step'[c] \in {"scan", "done"}
           /\ step[c] # "embed" => row'.discovered = row.discovered
           /\ step[c] \notin {"extract", "inflate"} => disk' = disk
<1>. USE DEF Ended
<1>1. CASE AskStart(c) \/ AskComplete(c) \/ AskExecute(c)
  BY <1>1 DEF AskStart, AskComplete, AskExecute, MayCall, jobVars
<1>2. CASE Start(c) \/ CompleteByHand(c) \/ ClaimJob(c) \/ Complete(c) \/ Fail(c)
  <2>1. /\ MoveTo(c, IF step[c] = "claim" THEN "scan" ELSE "done") /\ disk' = disk
        /\ step[c] \in {"start", "byHand", "claim", "complete", "fail"}
        /\ SetStatus(IF step[c] \in {"start", "claim"} THEN "RUNNING"
                     ELSE IF step[c] = "fail" THEN "FAILED" ELSE "COMPLETED")
    BY <1>2 DEF Start, CompleteByHand, ClaimJob, Complete, Fail
  <2>2. step'[c] \in {"scan", "done"}
    BY <2>1 DEF MoveTo, ImportTyped
  <2>. QED
    BY <2>1, <2>2 DEF SetStatus, ImportTyped, Jobs
<1>3. CASE Die(c)
  BY <1>3 DEF Die, jobVars
<1>4. CASE Scan(c) \/ BeginStore(c) \/ BeginEmbed(c)
  BY <1>4 DEF Scan, BeginStore, BeginEmbed, jobVars
<1>5. CASE ExtractArchive(c) \/ Inflate(c)
  BY <1>5 DEF ExtractArchive, Inflate
<1>6. CASE Embed(c) \/ Commit(c)
  <2>1. step[c] = "embed" /\ disk' = disk /\ (row' = row \/ Flush(c))
    BY <1>6 DEF Embed, Commit, SkipUnreadable, EmbedFails, EmbedDocument
  <2>. QED
    BY <2>1 DEF Flush, ImportTyped, Jobs
<1>7. CASE Store(c)
  BY <1>7 DEF Store
<1>. QED
  BY <1>1, <1>2, <1>3, <1>4, <1>5, <1>6, <1>7 DEF Still

LEMMA OthersRest ==
    ASSUME ImportBase, NEW c \in Calls, Still(c) \/ Store(c), setting.alone, SoleCall
    PROVE  \A d \in Calls : d # c => step[d] \in Rest /\ step'[d] = step[d]
<1>1. \A d \in Calls : d # c => step'[d] = step[d]
  BY StillFrames, Storing DEF ImportBase
<1>2. CASE step[c] \notin Rest
  BY <1>1, <1>2 DEF SoleCall
<1>3. CASE step[c] \in Rest
  <2>1. step[c] = "idle"
    BY <1>3, RowMoves DEF ImportBase, Rest
  <2>2. AskStart(c) \/ AskComplete(c) \/ AskExecute(c)
    BY <2>1 DEF Still, Start, CompleteByHand, ClaimJob, Scan, ExtractArchive, Inflate, BeginStore,
        Store, BeginEmbed, Embed, Commit, Complete, Fail, Die
  <2>. QED
    BY <1>1, <2>2 DEF AskStart, AskComplete, AskExecute, MayCall, Rest
<1>. QED
  BY <1>2, <1>3

LEMMA Asking ==
    ASSUME ImportBase, NEW c \in Calls, Still(c) \/ Store(c), step[c] \in Rest
    PROVE  /\ AskStart(c) \/ AskComplete(c) \/ AskExecute(c)
           /\ step[c] = "idle" /\ step'[c] \in {"start", "byHand", "claim", "done"}
           /\ row' = row /\ disk' = disk
<1>1. step[c] = "idle"
  BY RowMoves DEF ImportBase, Rest
<1>2. AskStart(c) \/ AskComplete(c) \/ AskExecute(c)
  BY <1>1 DEF Still, Start, CompleteByHand, ClaimJob, Scan, ExtractArchive, Inflate, BeginStore,
      Store, BeginEmbed, Embed, Commit, Complete, Fail, Die
<1>3. PICK s \in {"start", "byHand", "claim", "done"} : MoveTo(c, s)
  BY <1>2 DEF AskStart, AskComplete, AskExecute
<1>4. step'[c] = s
  BY <1>3, ImportMoves DEF CallSteps, Ended, Working, ImportBase
<1>. QED
  BY <1>1, <1>2, <1>4 DEF AskStart, AskComplete, AskExecute, jobVars

\* Where an action takes its call, and what it has read of the row by then.
LEMMA Reading ==
    ASSUME ImportBase, NEW c \in Calls, Still(c) \/ Store(c)
    PROVE  /\ step'[c] = "start" => row' = row /\ row.status \in Life!Startable
           /\ step'[c] = "claim" => row' = row /\ Executable(row.status)
           /\ step'[c] = "byHand" => row' = row /\ row.status = "RUNNING" /\ "complete" \in setting.kinds
           /\ step'[c] = "scan" => step[c] = "claim" /\ row'.status = "RUNNING"
           /\ step'[c] \in Working \ {"claim", "scan"} =>
                 step[c] \in Working \ {"claim"} /\ row'.status = row.status
<1>. USE DEF Working
<1>1. ImportTyped /\ Progress(c)
  BY DEF ImportBase
<1>2. CASE AskStart(c) \/ AskComplete(c) \/ AskExecute(c)
  <2>1. row' = row
    BY <1>2 DEF AskStart, AskComplete, AskExecute, jobVars
  <2>2. step'[c] \in {"start", "byHand", "claim", "done"}
    BY <1>1, <1>2, ImportMoves DEF AskStart, AskComplete, AskExecute, CallSteps, Ended
  <2>3. /\ step'[c] = "start" => row.status \in Life!Startable
        /\ step'[c] = "claim" => Executable(row.status)
        /\ step'[c] = "byHand" => row.status = "RUNNING" /\ "complete" \in setting.kinds
    BY <1>1, <1>2, ImportMoves
    DEF AskStart, AskComplete, AskExecute, MayCall, CallSteps, Ended
  <2>. QED
    BY <2>1, <2>2, <2>3
<1>3. CASE Start(c) \/ CompleteByHand(c) \/ Complete(c) \/ Fail(c) \/ Die(c)
  <2>1. step'[c] \in {"done", "dead"}
    BY <1>1, <1>3, ImportMoves DEF Start, CompleteByHand, Complete, Fail, Die, CallSteps, Ended
  <2>. QED
    BY <2>1
<1>4. CASE ClaimJob(c)
  <2>1. step[c] = "claim" /\ step'[c] = "scan" /\ SetStatus("RUNNING")
    BY <1>1, <1>4, ImportMoves DEF ClaimJob, CallSteps
  <2>. QED
    BY <1>1, <2>1 DEF SetStatus, ImportTyped, Jobs
<1>5. CASE Scan(c) \/ ExtractArchive(c) \/ Inflate(c) \/ BeginStore(c) \/ BeginEmbed(c)
  <2>1. /\ step[c] \in Working \ {"claim"} /\ row' = row
        /\ \E s \in {"fail", "extract", "inflate", "store", "embed"} : MoveTo(c, s)
    BY <1>5 DEF Scan, ExtractArchive, Refuse, Inflate, BeginStore, BeginEmbed, jobVars
  <2>2. step'[c] \in {"fail", "extract", "inflate", "store", "embed"}
    BY <1>1, <2>1, ImportMoves DEF CallSteps
  <2>. QED
    BY <2>1, <2>2
<1>6. CASE Embed(c) \/ Commit(c)
  <2>1. /\ step[c] = "embed" /\ (row' = row \/ Flush(c))
        /\ step' = step \/ \E s \in {"complete", "fail"} : MoveTo(c, s)
    BY <1>6 DEF Embed, Commit, SkipUnreadable, EmbedFails, EmbedDocument
  <2>2. step'[c] \in {"embed", "complete", "fail"}
    BY <1>1, <2>1, ImportMoves DEF CallSteps
  <2>. QED
    BY <1>1, <2>1, <2>2 DEF Flush, ImportTyped, Jobs
<1>7. CASE Store(c)
  <2>1. step[c] = "store" /\ row' = row /\ step'[c] \in {"store", "fail"}
    BY <1>1, <1>7, Storing
  <2>. QED
    BY <2>1
<1>. QED
  BY <1>2, <1>3, <1>4, <1>5, <1>6, <1>7 DEF Still

LEMMA AloneStays ==
    ASSUME ImportBase, NEW c \in Calls, Still(c) \/ Store(c), setting.alone, SoleCall
    PROVE  SoleCall'
<1>1. \A d \in Calls : d # c => step'[d] \in Rest
  BY OthersRest
<1>2. /\ step'[c] = "start" => row'.status \in Life!Startable
      /\ step'[c] = "claim" => Executable(row'.status)
      /\ step'[c] \in ({"byHand"} \cup Working) \ {"claim"} => row'.status = "RUNNING"
  BY Reading DEF SoleCall, Working
<1>3. Rest \cap ({"start", "claim", "byHand"} \cup Working) = {}
  BY DEF Rest, Ended, Working
<1>. QED
  BY <1>1, <1>2, <1>3 DEF SoleCall

\* Nobody completes the job by hand.
NoneByHand == "complete" \notin setting.kinds /\ \A c \in Calls : step[c] # "byHand"

LEMMA NoneByHandStays ==
    ASSUME ImportBase, NEW c \in Calls, Still(c) \/ Store(c), NoneByHand
    PROVE  NoneByHand'
<1>1. setting' = setting /\ \A d \in Calls : d # c => step'[d] = step[d]
  BY StillFrames, Storing DEF ImportBase
<1>2. step'[c] # "byHand"
  BY Reading DEF NoneByHand
<1>. QED
  BY <1>1, <1>2 DEF NoneByHand

\* A torn file is one of an archive, which whoever extracts archives has still ahead;
\* whoever stores documents finds none.
TornKnown ==
    \A p \in Paths : disk[p] = Torn =>
        /\ \E i \in 1..Len(setting.archives) : Named(setting.archives[i], p) # {}
        /\ \A c \in Calls :
            /\ step[c] \notin {"store", "embed", "complete"}
            /\ step[c] \in {"extract", "inflate"} =>
                   \E i \in 1..Len(todo[c]) : Named(todo[c][i], p) # {}

LEMMA TornStaysKnown ==
    ASSUME ImportBase, NEW c \in Calls, Still(c) \/ Store(c), setting.alone, SoleCall, TornKnown
    PROVE  TornKnown'
<1>1. /\ ImportTyped /\ Progress(c) /\ setting' = setting
      /\ \A d \in Calls : d # c => step'[d] \in Rest
  BY OthersRest, StillFrames, Storing DEF ImportBase
<1>2. Rest \cap {"store", "embed", "complete", "extract", "inflate"} = {}
  BY DEF Rest, Ended
<1>3. ASSUME NEW a, NEW p PROVE Named(a, p)' = Named(a, p)
  BY DEF Named, FilesOf, Kept
<1>. DEFINE Ahead(p) == \E i \in 1..Len(todo[c]) : Named(todo[c][i], p) # {}
            AheadNext(p) == \E i \in 1..Len(todo'[c]) : Named(todo'[c][i], p) # {}
            Archived(p) == \E i \in 1..Len(setting.archives) : Named(setting.archives[i], p) # {}
<1>. SUFFICES ASSUME NEW p \in Paths, disk'[p] = Torn
              PROVE  /\ Archived(p)
                     /\ step'[c] \notin {"store", "embed", "complete"}
                     /\ step'[c] \in {"extract", "inflate"} => AheadNext(p)
  BY <1>1, <1>2, <1>3 DEF TornKnown
<1>4. disk[p] = Torn =>
         /\ Archived(p)
         /\ step[c] \notin {"store", "embed", "complete"}
         /\ step[c] \in {"extract", "inflate"} => Ahead(p)
  BY DEF TornKnown
<1>. HIDE DEF Ahead, AheadNext, Archived
<1>5. setting.archives \in Seq(ArchiveRecords)
  BY <1>1, Expanding DEF ImportTyped
<1>6. step[c] \in {"extract", "inflate"} => todo[c] \in Seq(ArchiveRecords)
  <2>1. ASSUME NEW k \in 0..Len(setting.archives)
        PROVE  SubSeq(setting.archives, k + 1, Len(setting.archives)) \in Seq(ArchiveRecords)
    BY <1>5
  <2>. QED
    BY <1>1, <2>1 DEF Progress
<1>7. CASE ExtractArchive(c)
  <2>1. step[c] = "extract" /\ todo[c] # << >> /\ todo' = todo
    BY <1>7 DEF ExtractArchive, Refuse
  <2>2. step'[c] \in {"inflate", "fail"}
    BY <1>1, <1>7, ImportMoves DEF ExtractArchive, Refuse, CallSteps, Working
  <2>3. PICK k \in 0..(Len(setting.archives) - 1) :
           /\ Head(todo[c]) = setting.archives[k + 1] /\ Head(todo[c]) \in ToSet(setting.archives)
    BY <1>1, <2>1, Extracting
  <2>4. disk[p] = Torn \/ Named(Head(todo[c]), p) # {}
    BY <1>1, <1>7, <2>3, Written DEF ExtractArchive, Refuse
  <2>5. CASE disk[p] = Torn
    BY <1>4, <2>1, <2>2, <2>5 DEF Ahead, AheadNext
  <2>6. CASE Named(Head(todo[c]), p) # {}
    <3>1. Archived(p)
      <4>1. k + 1 \in 1..Len(setting.archives)
        BY <1>5, <2>3
      <4>. QED
        BY <2>3, <2>6, <4>1 DEF Archived
    <3>2. AheadNext(p)
      <4>1. 1 \in 1..Len(todo[c]) /\ Head(todo[c]) = todo[c][1]
        BY <1>6, <2>1
      <4>. QED
        BY <2>1, <2>6, <4>1 DEF AheadNext
    <3>. QED
      BY <2>2, <3>1, <3>2
  <2>. QED
    BY <2>4, <2>5, <2>6
<1>8. CASE Inflate(c)
  <2>1. step[c] = "inflate" /\ todo[c] # << >>
    BY <1>1, <1>8 DEF Inflate, Progress
  <2>2. Head(todo[c]) \in ToSet(setting.archives)
    BY <1>1, <2>1, Extracting
  <2>3. disk[p] = Torn
    BY <1>1, <1>8, <2>2, Written DEF Inflate
  <2>4. Archived(p) /\ Ahead(p)
    BY <1>4, <2>1, <2>3
  <2>5. CASE MoveTo(c, "fail")
    <3>1. step'[c] = "fail"
      BY <1>1, <2>5, ImportMoves DEF CallSteps, Working
    <3>. QED
      BY <2>4, <3>1
  <2>6. CASE ~MoveTo(c, "fail")
    <3>1. /\ MoveTo(c, "extract") /\ disk' = Extracted(Head(todo[c]))
          /\ todo' = [todo EXCEPT ![c] = Tail(todo[c])]
      BY <1>8, <2>6 DEF Inflate
    <3>2. step'[c] = "extract" /\ todo'[c] = Tail(todo[c])
      BY <1>1, <3>1, ImportMoves DEF CallSteps, Working, ImportTyped
    <3>3. Named(Head(todo[c]), p) = {}
      BY <1>1, <2>2, <3>1, Written
    <3>4. PICK i \in 1..Len(todo[c]) : Named(todo[c][i], p) # {}
      BY <2>4 DEF Ahead
    <3>5. i # 1
      BY <1>6, <2>1, <3>3, <3>4
    <3>6. i - 1 \in 1..Len(Tail(todo[c])) /\ Tail(todo[c])[i - 1] = todo[c][i]
      BY <1>6, <2>1, <3>4, <3>5
    <3>7. AheadNext(p)
      BY <3>2, <3>4, <3>6 DEF AheadNext
    <3>. QED
      BY <2>4, <3>2, <3>7
  <2>. QED
    BY <2>5, <2>6
<1>9. CASE Scan(c)
  <2>1. disk' = disk
    BY <1>9 DEF Scan, jobVars
  <2>2. CASE MoveTo(c, "fail")
    <3>1. step'[c] = "fail"
      BY <1>1, <2>2, ImportMoves DEF CallSteps, Working
    <3>. QED
      BY <1>4, <2>1, <3>1
  <2>3. CASE ~MoveTo(c, "fail")
    <3>1. MoveTo(c, "extract") /\ todo' = [todo EXCEPT ![c] = setting.archives]
      BY <1>9, <2>3 DEF Scan
    <3>2. step'[c] = "extract" /\ todo'[c] = setting.archives
      BY <1>1, <3>1, ImportMoves DEF CallSteps, Working, ImportTyped
    <3>. QED
      BY <1>4, <2>1, <3>2 DEF Archived, AheadNext
  <2>. QED
    BY <2>2, <2>3
<1>10. CASE BeginStore(c)
  <2>1. step[c] = "extract" /\ todo[c] = << >> /\ disk' = disk
    BY <1>10 DEF BeginStore, jobVars
  <2>2. Len(todo[c]) = 0
    BY <2>1
  <2>. QED
    BY <1>4, <2>1, <2>2 DEF Ahead
<1>11. CASE Store(c) \/ BeginEmbed(c) \/ Embed(c) \/ Commit(c) \/ Complete(c)
  <2>1. step[c] \in {"store", "embed", "complete"} /\ disk' = disk
    BY <1>11 DEF Store, BeginEmbed, Embed, Commit, Complete, jobVars
  <2>. QED
    BY <1>4, <2>1
<1>12. CASE \/ AskStart(c) \/ AskComplete(c) \/ AskExecute(c) \/ Start(c) \/ CompleteByHand(c)
            \/ ClaimJob(c) \/ Fail(c) \/ Die(c)
  <2>1. disk' = disk
    BY <1>12 DEF AskStart, AskComplete, AskExecute, Start, CompleteByHand, ClaimJob, Fail, Die,
       jobVars
  <2>2. \E s \in {"start", "byHand", "claim", "scan", "done", "dead"} : MoveTo(c, s)
    BY <1>12 DEF AskStart, AskComplete, AskExecute, Start, CompleteByHand, ClaimJob, Fail, Die
  <2>3. step'[c] \in {"start", "byHand", "claim", "scan", "done", "dead"}
    BY <1>1, <2>2, ImportMoves DEF CallSteps, Working, Ended
  <2>. QED
    BY <1>4, <2>1, <2>3
<1>. QED
  BY <1>7, <1>8, <1>9, <1>10, <1>11, <1>12 DEF Still

\* Each document of a call has the hash of its file as it lies there, or none.
HashesFit(c) ==
    \A i \in ToSet(made[c]) : documents[i].hash \in {Null, disk[documents[i].path]} \ {Torn}
Counted == "embed" \notin setting.faults => row.discovered = Len(Everything)

LEMMA HashesStay ==
    ASSUME ImportTyped, NEW d \in Calls, made'[d] = made[d], setting' = setting, disk' = disk,
           documents' = documents \/ \E r \in Documents : documents' = Append(documents, r),
           HashesFit(d)
    PROVE  HashesFit(d)'
  BY StoredStays DEF HashesFit

\* What a call that has the job to itself has stored and counted.
Fresh(c) ==
    /\ step[c] \in {"store", "embed", "complete"} => HashesFit(c)
    /\ step[c] = "embed" => pending[c] = Len(Everything) \/ (pending[c] = Null /\ Counted)
    /\ step[c] = "complete" => Counted

LEMMA CountStays ==
    ASSUME setting' = setting, row'.discovered = row.discovered
    PROVE  Counted' <=> Counted
  BY SourceStays DEF Counted

LEMMA StoreStaysFresh ==
    ASSUME ImportBase, NEW c \in Calls, Store(c), TornKnown, Fresh(c), step'[c] = "store"
    PROVE  HashesFit(c)'
<1>1. /\ ImportTyped /\ Progress(c) /\ setting' = setting /\ step[c] = "store" /\ disk' = disk
      /\ HashesFit(c)
  BY Storing DEF ImportBase, Fresh
<1>2. /\ Head(todo[c]) \in Paths
      /\ made' = [made EXCEPT ![c] = Append(made[c], Len(documents) + 1)]
      /\ \E hash \in {disk[Head(todo[c])], Null} :
            documents' = Append(documents, [path |-> Head(todo[c]), hash |-> hash, by |-> c])
  BY <1>1, Storing
<1>3. PICK hash \in {disk[Head(todo[c])], Null} :
         documents' = Append(documents, [path |-> Head(todo[c]), hash |-> hash, by |-> c])
  BY <1>2
<1>4. disk[Head(todo[c])] # Torn /\ Null # Torn
  BY <1>1, <1>2, NullAssumption DEF TornKnown, Rest, Ended
<1>5. documents \in Seq(Documents) /\ made[c] \in Seq(Nat) /\ ToSet(made[c]) \subseteq DOMAIN documents
  BY <1>1 DEF ImportTyped
<1>6. /\ \A i \in DOMAIN documents : documents'[i] = documents[i]
      /\ documents'[Len(documents) + 1] = [path |-> Head(todo[c]), hash |-> hash, by |-> c]
  BY <1>3, <1>5
<1>7. made'[c] = Append(made[c], Len(documents) + 1)
  BY <1>1, <1>2 DEF ImportTyped
<1>8. ToSet(made'[c]) \subseteq ToSet(made[c]) \cup {Len(documents) + 1}
  <2>1. Len(documents) + 1 \in Nat
    BY <1>5
  <2>. QED
    BY <1>5, <1>7, <2>1 DEF ToSet
<1>9. ASSUME NEW i \in ToSet(made[c])
      PROVE  documents'[i].hash \in {Null, disk'[documents'[i].path]} \ {Torn}
  BY <1>1, <1>5, <1>6 DEF HashesFit
<1>10. documents'[Len(documents) + 1].hash
           \in {Null, disk'[documents'[Len(documents) + 1].path]} \ {Torn}
  BY <1>1, <1>4, <1>6
<1>. QED
  BY <1>8, <1>9, <1>10 DEF HashesFit

LEMMA FreshStays ==
    ASSUME ImportBase, NEW c \in Calls, Still(c) \/ Store(c), TornKnown, Fresh(c)
    PROVE  Fresh(c)'
<1>1. /\ ImportTyped /\ Progress(c) /\ setting' = setting /\ Everything' = Everything
  BY StillFrames, Storing, SourceStays DEF ImportBase
<1>2. CASE step'[c] \notin {"store", "embed", "complete"}
  BY <1>2 DEF Fresh
<1>3. CASE Store(c) /\ step'[c] = "store"
  BY <1>3, StoreStaysFresh DEF Fresh
<1>4. CASE Store(c) /\ step'[c] # "store"
  BY <1>1, <1>2, <1>4, Storing
<1>5. CASE BeginStore(c)
  <2>1. step'[c] = "store" /\ made' = made /\ made[c] = << >>
    BY <1>1, <1>5, ImportMoves DEF BeginStore, CallSteps, Working, Progress
  <2>2. ToSet(made'[c]) = {}
    BY <2>1 DEF ToSet
  <2>. QED
    BY <2>1, <2>2 DEF Fresh, HashesFit
<1>6. CASE BeginEmbed(c)
  <2>1. /\ step'[c] = "embed" /\ step[c] = "store" /\ UNCHANGED <<documents, made, disk>>
        /\ pending'[c] = Len(found[c])
    BY <1>1, <1>6, ImportMoves DEF BeginEmbed, CallSteps, Working, jobVars, ImportTyped
  <2>2. found[c] = Everything /\ HashesFit(c)
    BY <1>1, <2>1 DEF Progress, Fresh
  <2>3. HashesFit(c)'
    BY <1>1, <2>1, <2>2, HashesStay
  <2>4. pending'[c] = Len(Everything)'
    BY <1>1, <2>1, <2>2
  <2>. QED
    BY <2>1, <2>3, <2>4 DEF Fresh
<1>7. CASE Embed(c) \/ Commit(c)
  <2>1. /\ step[c] = "embed" /\ UNCHANGED <<documents, made, disk>>
        /\ step' = step \/ \E s \in {"complete", "fail"} : MoveTo(c, s)
    BY <1>7 DEF Embed, Commit
  <2>2. HashesFit(c)'
    BY <1>1, <2>1, HashesStay DEF Fresh
  <2>3. Len(Everything) # Null
    <3>1. Len(Everything) \in Nat
      BY <1>1, <2>1 DEF Progress, ImportTyped
    <3>. QED
      BY <3>1, NullAssumption
  <2>4. CASE Flush(c)
    <3>1. /\ pending'[c] = Null
          /\ row'.discovered = IF pending[c] = Null THEN row.discovered ELSE pending[c]
      BY <1>1, <2>4 DEF Flush, ImportTyped, Jobs
    <3>2. Counted'
      BY <1>1, <2>1, <2>3, <3>1 DEF Fresh, Counted
    <3>. QED
      BY <2>2, <3>1, <3>2 DEF Fresh
  <2>5. CASE Embed(c) /\ ~Flush(c)
    <3>1. /\ step' = step /\ row' = row
          /\ \/ pending' = pending
             \/ "embed" \in setting.faults /\ pending' = [pending EXCEPT ![c] = Null]
      BY <2>5 DEF Embed, SkipUnreadable, EmbedFails, EmbedDocument
    <3>2. \/ pending'[c] = pending[c]
          \/ "embed" \in setting.faults /\ pending'[c] = Null
      BY <1>1, <3>1 DEF ImportTyped
    <3>3. Counted' <=> Counted
      BY <1>1, <3>1, CountStays
    <3>4. step'[c] = "embed"
      BY <2>1, <3>1
    <3>5. \/ pending[c] = Len(Everything)
          \/ pending[c] = Null /\ Counted
      BY <2>1 DEF Fresh
    <3>6. \/ pending'[c] = Len(Everything)'
          \/ pending'[c] = Null /\ Counted'
      <4>1. CASE pending'[c] = pending[c]
        BY <1>1, <3>3, <3>5, <4>1
      <4>2. CASE "embed" \in setting.faults /\ pending'[c] = Null
        BY <1>1, <4>2 DEF Counted
      <4>. QED
        BY <3>2, <4>1, <4>2
    <3>. QED
      BY <2>2, <3>4, <3>6 DEF Fresh
  <2>. QED
    BY <1>7, <2>4, <2>5 DEF Commit
<1>8. CASE /\ ~Store(c) /\ ~BeginStore(c) /\ ~BeginEmbed(c) /\ ~Embed(c) /\ ~Commit(c)
  <2>1. CASE AskStart(c) \/ AskComplete(c) \/ AskExecute(c)
    <3>1. step[c] \in Rest
      BY <2>1 DEF AskStart, AskComplete, AskExecute, MayCall, Rest
    <3>. QED
      BY <1>2, <3>1, Asking
  <2>2. CASE ~(AskStart(c) \/ AskComplete(c) \/ AskExecute(c))
    <3>1. \E s \in {"done", "dead", "scan", "fail", "extract", "inflate"} : MoveTo(c, s)
      BY <1>8, <2>2 DEF Still, Start, CompleteByHand, ClaimJob, Scan, ExtractArchive, Refuse,
          Inflate, Complete, Fail, Die
    <3>2. step'[c] \in {"done", "dead", "scan", "fail", "extract", "inflate"}
      BY <1>1, <3>1, ImportMoves DEF CallSteps, Working, Ended
    <3>. QED
      BY <1>2, <3>2
  <2>. QED
    BY <2>1, <2>2
<1>. QED
  BY <1>3, <1>4, <1>5, <1>6, <1>7, <1>8

\* A completed job has a call that has done all of it.
Completed ==
    row.status = "COMPLETED" =>
        \E c \in Calls :
            /\ step[c] = "done" /\ StoredAll(c)
            /\ setting.alone => HashesFit(c) /\ Counted

\* What holds of a job in every reachable state.
ImportInv ==
    /\ ImportBase
    /\ setting.alone => SoleCall
    /\ "complete" \notin setting.kinds =>
          NoneByHand /\ Completed /\ (setting.alone => TornKnown /\ \A c \in Calls : Fresh(c))

LEMMA StaysCompleted ==
    ASSUME ImportBase, NEW c \in Calls, Still(c) \/ Store(c), setting.alone => SoleCall, NoneByHand,
           Completed, setting.alone => Fresh(c)
    PROVE  Completed'
<1>1. /\ ImportTyped /\ Progress(c) /\ setting' = setting /\ Everything' = Everything
      /\ documents' = documents \/ \E r \in Documents : documents' = Append(documents, r)
      /\ \A d \in Calls : d # c => step'[d] = step[d] /\ made'[d] = made[d]
  BY StillFrames, Storing, StoreAppends, SourceStays DEF ImportBase
<1>. SUFFICES ASSUME row'.status = "COMPLETED" PROVE Completed'
  BY DEF Completed
<1>2. CASE row.status = "COMPLETED"
  <2>1. PICK d \in Calls :
            /\ step[d] = "done" /\ StoredAll(d)
            /\ setting.alone => HashesFit(d) /\ Counted
    BY <1>2 DEF Completed
  <2>2. d # c
    BY <1>1, <2>1, RowMoves DEF Ended
  <2>3. step'[d] = "done" /\ made'[d] = made[d]
    BY <1>1, <2>1, <2>2
  <2>4. StoredAll(d)'
    BY <1>1, <2>1, <2>3, StoredStays
  <2>5. ASSUME setting.alone PROVE HashesFit(d)' /\ Counted'
    <3>1. step[c] \in Rest
      BY <1>1, <1>2, <2>5
      DEF SoleCall, Rest, NoneByHand, ImportTyped, CallSteps, Working, Ended, Executable,
      Life!Startable
    <3>2. row' = row /\ disk' = disk
      BY <3>1, Asking
    <3>. QED
      BY <1>1, <2>1, <2>3, <2>5, <3>2, HashesStay, CountStays
  <2>. QED
    BY <1>1, <2>3, <2>4, <2>5 DEF Completed
<1>3. CASE row.status # "COMPLETED"
  <2>1. step[c] = "complete" /\ step'[c] \in {"scan", "done"}
    BY <1>1, <1>3, RowMoves DEF NoneByHand
  <2>2. /\ step'[c] = "done" /\ made'[c] = made[c] /\ disk' = disk /\ documents' = documents
        /\ row'.discovered = row.discovered
    <3>1. Still(c)
      BY <2>1 DEF Store
    <3>2. step'[c] # "scan"
      BY <2>1, Reading
    <3>. QED
      BY <1>1, <2>1, <3>1, <3>2, StillFrames, RowMoves
  <2>3. StoredAll(c)'
    BY <1>1, <2>1, <2>2, StoredStays DEF Progress
  <2>4. ASSUME setting.alone PROVE HashesFit(c)' /\ Counted'
    BY <1>1, <2>1, <2>2, <2>4, HashesStay, CountStays DEF Fresh
  <2>. QED
    BY <1>1, <2>2, <2>3, <2>4 DEF Completed
<1>. QED
  BY <1>2, <1>3

LEMMA ImportInvInit == ImportInit => ImportInv
<1>. SUFFICES ASSUME ImportInit PROVE ImportInv
  OBVIOUS
<1>1. /\ ImportBase /\ \A c \in Calls : step[c] = "idle"
      /\ row.status = "PENDING" /\ disk = setting.source /\ setting \in Settings
  BY ImportBaseInit DEF ImportInit
<1>2. SoleCall
  BY <1>1 DEF SoleCall, Rest, Working
<1>3. NoneByHand \/ "complete" \in setting.kinds
  BY <1>1 DEF NoneByHand
<1>4. Completed
  BY <1>1 DEF Completed
<1>5. TornKnown
  <2>1. \A p \in Paths : disk[p] \in Contents \cup {Null}
    BY <1>1, SettingsAssumption
  <2>. QED
    BY <2>1, TornAssumption, NullAssumption DEF TornKnown
<1>6. \A c \in Calls : Fresh(c)
  BY <1>1 DEF Fresh
<1>. QED
  BY <1>1, <1>2, <1>3, <1>4, <1>5, <1>6 DEF ImportInv

LEMMA ImportInvStep == ImportInv /\ [ImportNext]_importVars => ImportInv'
<1>. SUFFICES ASSUME ImportInv, [ImportNext]_importVars PROVE ImportInv'
  OBVIOUS
<1>1. ImportBase'
  BY ImportBaseStep DEF ImportInv
<1>2. CASE UNCHANGED importVars
  <2>1. /\ setting' = setting /\ row' = row /\ documents' = documents /\ disk' = disk
        /\ step' = step /\ todo' = todo /\ made' = made /\ pending' = pending
        /\ Everything' = Everything /\ Documentable(Everything)' = Documentable(Everything)
    BY <1>2, SourceStays DEF importVars
  <2>2. SoleCall' <=> SoleCall
    BY <2>1 DEF SoleCall
  <2>3. (NoneByHand' <=> NoneByHand) /\ (TornKnown' <=> TornKnown)
    BY <2>1 DEF NoneByHand, TornKnown
  <2>4. (Counted' <=> Counted) /\ \A c \in Calls : HashesFit(c)' <=> HashesFit(c)
    BY <2>1 DEF Counted, HashesFit
  <2>5. \A c \in Calls : (StoredAll(c)' <=> StoredAll(c)) /\ (Fresh(c)' <=> Fresh(c))
    BY <2>1, <2>4 DEF StoredAll, Fresh
  <2>6. Completed' <=> Completed
    BY <2>1, <2>4, <2>5 DEF Completed
  <2>. QED
    BY <1>1, <2>1, <2>2, <2>3, <2>5, <2>6 DEF ImportInv
<1>3. ASSUME NEW c \in Calls, Still(c) \/ Store(c) PROVE ImportInv'
  <2>1. /\ ImportBase /\ setting' = setting
        /\ setting.alone => SoleCall
    BY <1>3, StillFrames, Storing DEF ImportInv, ImportBase
  <2>2. setting.alone => SoleCall'
    BY <1>3, <2>1, AloneStays
  <2>3. ASSUME "complete" \notin setting.kinds PROVE NoneByHand' /\ Completed'
    BY <1>3, <2>1, <2>3, NoneByHandStays, StaysCompleted DEF ImportInv
  <2>4. ASSUME "complete" \notin setting.kinds, setting.alone
        PROVE  TornKnown' /\ \A d \in Calls : Fresh(d)'
    <3>1. NoneByHand /\ TornKnown /\ \A d \in Calls : Fresh(d)
      BY <2>4 DEF ImportInv
    <3>2. TornKnown'
      BY <1>3, <2>1, <2>4, <3>1, TornStaysKnown
    <3>3. ASSUME NEW d \in Calls, d # c PROVE Fresh(d)'
      <4>1. step'[d] \in Rest
        BY <1>3, <2>1, <2>4, <3>3, OthersRest
      <4>. QED
        BY <4>1 DEF Fresh, Rest, Ended
    <3>4. Fresh(c)'
      BY <1>3, <2>1, <3>1, FreshStays
    <3>. QED
      BY <3>2, <3>3, <3>4
  <2>. QED
    BY <1>1, <2>1, <2>2, <2>3, <2>4 DEF ImportInv
<1>. QED
  BY <1>2, <1>3, CallActions DEF ImportNext

LEMMA ImportInvHolds == ImportSpec => []ImportInv
  BY ImportInvInit, ImportInvStep, PTL DEF ImportSpec

\* What a call is about to embed is stored.
Embedding ==
    /\ embedded \subseteq DOMAIN documents
    /\ \A c \in Calls : step[c] = "embed" => ToSet(todo[c]) \subseteq DOMAIN documents
    /\ deaths \in Nat

LEMMA EmbeddingStays == ImportBase /\ Embedding /\ [ImportNext]_importVars => Embedding'
<1>. SUFFICES ASSUME ImportBase, Embedding, [ImportNext]_importVars PROVE Embedding'
  OBVIOUS
<1>1. CASE UNCHANGED importVars
  BY <1>1 DEF importVars, Embedding
<1>2. ASSUME NEW c \in Calls, Still(c) PROVE Embedding'
  <2>1. /\ ImportTyped /\ Progress(c) /\ documents' = documents
        /\ \A d \in Calls : d # c => step'[d] = step[d] /\ todo'[d] = todo[d]
    BY <1>2, StillFrames DEF ImportBase
  <2>2. deaths' \in Nat
    <3>1. CASE Die(c)
      BY <3>1 DEF Die, Embedding
    <3>2. CASE ~Die(c)
      <4>1. deaths' = deaths
        BY <1>2, <3>2 DEF Still, AskStart, AskComplete, AskExecute, Start, CompleteByHand,
           ClaimJob,
            Scan, ExtractArchive, Inflate, BeginStore, BeginEmbed, Embed, Commit, Complete, Fail
      <4>. QED
        BY <4>1 DEF Embedding
    <3>. QED
      BY <3>1, <3>2
  <2>3. CASE step'[c] # "embed"
    <3>1. ~Embed(c)
      BY <2>3 DEF Embed
    <3>2. embedded' = embedded
      BY <1>2, <3>1 DEF Still, AskStart, AskComplete, AskExecute, Start, CompleteByHand, ClaimJob,
        Scan, ExtractArchive, Inflate, BeginStore, BeginEmbed, Commit, Complete, Fail, Die,
        jobVars
    <3>. QED
      BY <2>1, <2>2, <2>3, <3>2 DEF Embedding
  <2>4. CASE BeginEmbed(c)
    <3>1. todo'[c] = made[c] /\ embedded' = embedded
      BY <2>1, <2>4 DEF BeginEmbed, ImportTyped, jobVars
    <3>. QED
      BY <2>1, <2>2, <3>1 DEF Embedding, ImportTyped
  <2>5. CASE Embed(c)
    <3>1. /\ step[c] = "embed" /\ todo[c] # << >> /\ todo'[c] = Tail(todo[c])
          /\ todo[c] \in Seq(Nat)
          /\ embedded' \subseteq embedded \cup {Head(todo[c])}
      BY <2>1, <2>5
      DEF Embed, SkipUnreadable, EmbedFails, EmbedDocument, ImportTyped, Progress
    <3>2. Head(todo[c]) \in ToSet(todo[c]) /\ ToSet(Tail(todo[c])) \subseteq ToSet(todo[c])
      BY <3>1 DEF ToSet
    <3>. QED
      BY <2>1, <2>2, <3>1, <3>2 DEF Embedding
  <2>6. CASE step'[c] = "embed" /\ ~BeginEmbed(c) /\ ~Embed(c)
    <3>1. step'[c] # "embed"
      <4>1. CASE step[c] \in Rest
        BY <1>2, <4>1, Asking
      <4>2. CASE step[c] \notin Rest
        <5>1. \E s \in CallSteps \ {"embed"} : MoveTo(c, s)
          BY <1>2, <2>6, <4>2 DEF Still, AskStart, AskComplete, AskExecute, MayCall, Start,
              CompleteByHand, ClaimJob, Scan, ExtractArchive, Refuse, Inflate, BeginStore, Commit,
              Complete, Fail, Die, CallSteps, Working, Ended, Rest
        <5>. QED
          BY <2>1, <5>1, ImportMoves
      <4>. QED
        BY <4>1, <4>2
    <3>. QED
      BY <2>6, <3>1
  <2>. QED
    BY <2>3, <2>4, <2>5, <2>6
<1>3. ASSUME NEW c \in Calls, Store(c) PROVE Embedding'
  <2>1. /\ ImportTyped /\ deaths' = deaths /\ embedded' = embedded /\ step'[c] # "embed"
        /\ \A d \in Calls : d # c => step'[d] = step[d] /\ todo'[d] = todo[d]
    BY <1>3, Storing DEF ImportBase, Store
  <2>2. DOMAIN documents \subseteq DOMAIN documents'
    <3>1. documents \in Seq(Documents)
      BY <2>1 DEF ImportTyped
    <3>2. documents' = documents \/ \E r \in Documents : documents' = Append(documents, r)
      BY <1>3, StoreAppends DEF ImportBase
    <3>3. ASSUME NEW r \in Documents PROVE DOMAIN documents \subseteq DOMAIN Append(documents, r)
      BY <3>1
    <3>. QED
      BY <3>2, <3>3
  <2>. QED
    BY <2>1, <2>2 DEF Embedding
<1>. QED
  BY <1>1, <1>2, <1>3, CallActions DEF ImportNext

\* Type correctness of import jobs: documents are of files that were found, and only
\* documents that exist are embedded.
THEOREM ImportTypeCorrect == ImportSpec => []ImportTypeOK
<1>1. ImportInit => Embedding
  BY SettingsAssumption DEF ImportInit, Embedding
<1>2. ImportInv /\ Embedding /\ [ImportNext]_importVars => Embedding'
  BY EmbeddingStays DEF ImportInv
<1>3. ImportInv /\ Embedding => ImportTypeOK
  <2>. SUFFICES ASSUME ImportTyped, Embedding PROVE ImportTypeOK
    BY DEF ImportInv, ImportBase
  <2>1. ToSet(documents) \subseteq Documents
    BY DEF ImportTyped, ToSet
  <2>2. ASSUME NEW c \in Calls
        PROVE  /\ ToSet(found[c]) \subseteq Paths
               /\ ToSet(made[c]) \subseteq DOMAIN documents
               /\ pending[c] \in Nat \cup {Null}
    <3>1. found[c] \in Seq(Paths) /\ pending[c] \in Nat \cup {Null}
      BY DEF ImportTyped
    <3>2. ToSet(made[c]) \subseteq DOMAIN documents
      BY DEF ImportTyped
    <3>. QED
      BY <3>1, <3>2 DEF ToSet
  <2>. QED
    BY <2>1, <2>2 DEF ImportTypeOK, ImportTyped, Embedding
<1>. QED
  BY <1>1, <1>2, <1>3, ImportInvHolds, PTL DEF ImportSpec

\* A job that nobody completes by hand says COMPLETED only when one execution has
\* stored a document for every file there is to discover, in order; and when its
\* executions do not overlap, no hash is of a file half written, and the job
\* counts every file unless an embedding failed.
THEOREM ImportsAreWhole == ImportSpec => []CompletedIsWhole
<1>1. ImportInv => CompletedIsWhole
  BY DEF ImportInv, Completed, CompletedIsWhole, HashesFit, Counted
<1>. QED
  BY <1>1, ImportInvHolds, PTL

\* Where one call at a time works on the job, its status takes only the three
\* edges of the architecture document: ImportJob implements ImportLife.
THEOREM ImportFollowsLife == ImportSpec => FollowsLife
<1>1. ImportInit => Life!Init
  BY DEF ImportInit, Life!Init
<1>2. ImportInv /\ [ImportNext]_importVars
          => [Life!Next]_(IF setting.alone THEN row.status ELSE "PENDING")
  <2>. SUFFICES ASSUME ImportInv, ImportNext
                PROVE  \/ Life!Next
                       \/ UNCHANGED (IF setting.alone THEN row.status ELSE "PENDING")
    BY DEF importVars
  <2>1. PICK c \in Calls : Still(c) \/ Store(c)
    BY CallActions DEF ImportNext
  <2>2. ImportTyped /\ Progress(c) /\ setting' = setting
    BY <2>1, StillFrames, Storing DEF ImportInv, ImportBase
  <2>3. CASE ~setting.alone
    BY <2>2, <2>3
  <2>4. CASE setting.alone
    <3>1. SoleCall
      BY <2>4 DEF ImportInv
    <3>2. row.status \in Life!ImportStatus
      BY <2>2 DEF ImportTyped, Jobs
    <3>3. CASE row'.status = row.status
      BY <2>2, <3>3
    <3>4. CASE step[c] \in {"start", "claim"} /\ row'.status = "RUNNING"
      <4>1. row.status \in Life!Startable
        BY <3>1, <3>2, <3>4 DEF SoleCall, Executable, Life!Startable, Life!ImportStatus
      <4>. QED
        BY <2>2, <2>4, <3>4, <4>1 DEF Life!Next, Life!Start
    <3>5. CASE step[c] \in {"byHand", "complete"} /\ row'.status = "COMPLETED"
      BY <2>2, <2>4, <3>1, <3>5 DEF SoleCall, Working, Life!Next, Life!Complete
    <3>6. CASE step[c] = "fail" /\ row'.status = "FAILED"
      BY <2>2, <2>4, <3>1, <3>6 DEF SoleCall, Working, Life!Next, Life!Fail
    <3>. QED
      BY <2>1, <2>2, <3>3, <3>4, <3>5, <3>6, RowMoves
  <2>. QED
    BY <2>3, <2>4
<1>. QED
  BY <1>1, <1>2, ImportInvHolds, PTL DEF ImportSpec, FollowsLife, Life!Spec
=============================================================================
