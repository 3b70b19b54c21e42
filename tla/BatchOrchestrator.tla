--------------------------- MODULE BatchOrchestrator ---------------------------
(***************************************************************************)
(* An ingestion batch from its creation to its completion, at the grain of *)
(* the calls that the orchestrator makes.                                  *)
(*                                                                         *)
(*   BatchCreationService       ReadMaterialized, CreateBatch              *)
(*   BatchControlService        Start, Pause, Resume                       *)
(*   run_ingestion_batch, t7_chain2_priority2_run_loop     Begin, Return   *)
(*   BatchOrchestratorService   EndStage, Complete and, of the services it *)
(*                              composes, ClaimRow .. EmbedGroup           *)
(*   t7_chain2_pilot_reset_group                           ResetGroup      *)
(*                                                                         *)
(* A batch is named by the call of create_batch that makes it.  A call of  *)
(* a stage is its claim, for two stages the admission against an envelope, *)
(* and its work; the transactions inside of the work, and workers that     *)
(* outlast their lease, are the subject of SourceIngestion and             *)
(* ContentPipeline.                                                        *)
(***************************************************************************)
EXTENDS BatchSelection, BatchStates, Sequences, SequencesExt

CONSTANTS
    Batches,       \* calls of create_batch
    Drives,        \* DiscoveryRuns
    Groups,        \* contents, one ContentIdentityGroup each
    Workers,       \* processes that run a batch
    Ask,           \* [Batches -> Asks]: the arguments of the call
    ContentOf,     \* [Candidates -> Groups]: the bytes of a file
    Walk,          \* [Candidates -> Seq(Groups)]: the leaves of an archive
    TooDeep,       \* archives that exceed max_depth, a durable failure
    InitialState,  \* [Groups -> StartStates], by the eligibility of the suffix
    Chunks,        \* [Groups -> Nat]: texts to embed
    Scenarios      \* the circumstances to consider, see ScopeAssumption

Paths == Candidates
Rows == Batches \X Paths

Stages == <<"archive_processing", "identity_resolution",
            "normalization", "chunking", "embedding">>

\* The pipeline states from which the last three stages claim.
ClaimedFrom ==
    [s \in 3..5 |-> <<{"EXTRACTED"}, {"NORMALIZED"}, {"CHUNKED", "EMBEDDED"}>>[s - 2]]

StartStates == {"EXTRACTED", "EXCLUDED", "UNSUPPORTED"}

TerminalStates == {"EXCLUDED", "UNSUPPORTED", "INGESTED", "FAILED"}

GroupStates == StartStates \cup TerminalStates \cup {"ABSENT", "NORMALIZED", "CHUNKED", "EMBEDDED"}

Outcomes == {"SUCCEEDED", "RETRYABLE", "DURABLE"}

FaultKinds ==
    {"control",   \* operators pause and resume batches
     "pipeline"}  \* content cannot be normalized, chunked or embedded

\* needs: groups that t7_chain2_retry_failed_batch wants in CHUNKED.
ASSUME AskAssumption ==
    \A b \in Batches :
        /\ Ask[b].drive \in Drives
        /\ Ask[b].seen \subseteq Candidates
        /\ Ask[b].needs \subseteq Groups
        /\ {Ask[b].maxInstances, Ask[b].maxMB, Ask[b].maxEmbeddings} \subseteq Nat
        /\ Ask[b].maxExtracted \in Nat \cup {None}
ASSUME ContentAssumption ==
    /\ ContentOf \in [Candidates -> Groups]
    /\ Walk \in [Candidates -> Seq(Groups)]
    /\ InitialState \in [Groups -> StartStates]
    /\ TooDeep \subseteq Candidates
    /\ Chunks \in [Groups -> Nat]
    /\ None \notin Candidates \cup Groups \cup Batches \cup Workers
    /\ None \notin BatchStatus

\* A scenario says which calls of create_batch are made, which batch each process
\* runs, whether it repeats passes, and what goes wrong; it bounds retryable
\* failures, replies of the server that are too short, deaths and resets of groups.
ASSUME ScopeAssumption ==
    \A s \in Scenarios :
        /\ s.calls \subseteq Batches
        /\ s.job \in [Workers -> Batches \cup {None}]
        /\ s.loops \subseteq Workers
        /\ s.faults \subseteq FaultKinds
        /\ {s.failures, s.shorts, s.deaths, s.resets} \subseteq Nat

VARIABLES
    \* calls of create_batch, and the paths each found materialized
    call, materialized,
    \* ingestion_batches, in the order of their ids, and their source_instances
    created, status, rows, extractedBytes, embeddingsReserved,
    rowClaim, attempts, identified,
    \* content_identity_groups in the order of created_at, their documents and
    \* chunks, how many of those are embedded, and the groups that a batch's files
    \* were found to hold
    queue, groupState, groupClaim, reservation, documents, chunked, embedded, tried, holds,
    \* the processes: where they are in the pass, rows had in this stage
    pc, stage, item, had,
    \* bounds: retryable failures, short replies, deaths, resets
    failures, shorts, deaths, resets,
    \* history: the pass met no obstacle, and had the database to itself
    smooth,
    \* the scenario this behaviour belongs to
    scenario

creationVars == <<call, materialized, created, rows>>
rowVars == <<rowClaim, attempts, identified>>
groupVars == <<queue, groupState, documents, chunked, embedded, tried, holds>>
embedVars == <<reservation, embeddingsReserved>>
boundVars == <<failures, shorts, deaths, resets>>
processVars == <<pc, stage, item, had, smooth>>
vars == <<creationVars, status, rowVars, extractedBytes, groupVars, groupClaim, embedVars,
          processVars, boundVars, scenario>>

TypeOK ==
    /\ call \in [Batches -> {"waiting", "selecting", "done"}]
    /\ materialized \in [Batches -> SUBSET Paths]
    /\ created \in Seq(Batches) /\ IsInjective(created)
    /\ status \in [Batches -> BatchStatus \cup {None}]
    /\ \A b \in Batches : status[b] # None <=> b \in ToSet(created)
    /\ rows \in [Batches -> SUBSET Paths]
    /\ extractedBytes \in [Batches -> Nat]
    /\ embeddingsReserved \in [Batches -> Nat]
    /\ \A b \in Batches : embeddingsReserved[b] <= Ask[b].maxEmbeddings
    /\ rowClaim \in [Rows -> Workers \cup {None}]
    /\ attempts \in [Rows -> SUBSET Outcomes]
    /\ identified \subseteq Rows
    /\ queue \in Seq(Groups) /\ IsInjective(queue)
    /\ groupState \in [Groups -> GroupStates]
    /\ \A g \in Groups : groupState[g] # "ABSENT" <=> g \in ToSet(queue)
    /\ groupClaim \in [Groups -> Workers \cup {None}]
    /\ reservation \in [Groups -> Batches \cup {None}]
    /\ chunked \subseteq documents /\ documents \subseteq Groups /\ tried \subseteq Groups
    /\ embedded \in [Groups -> Nat]
    /\ \A g \in Groups : embedded[g] <= Chunks[g] /\ (embedded[g] > 0 => g \in chunked)
    /\ holds \in [Batches -> SUBSET Groups]
    /\ pc \in [Workers -> {"idle", "claim", "admit", "work", "complete", "rest", "done"}]
    /\ stage \in [Workers -> 1..Len(Stages)]
    /\ item \in [Workers -> Paths \cup Groups \cup {None}]
    /\ had \in [Workers -> SUBSET Paths]
    /\ smooth \in [Workers -> BOOLEAN]
    /\ scenario \in Scenarios

Init ==
    /\ scenario \in Scenarios
    /\ call = [b \in Batches |-> "waiting"]
    /\ materialized = [b \in Batches |-> {}]
    /\ created = <<>>
    /\ status = [b \in Batches |-> None]
    /\ rows = [b \in Batches |-> {}]
    /\ extractedBytes = [b \in Batches |-> 0]
    /\ embeddingsReserved = [b \in Batches |-> 0]
    /\ rowClaim = [r \in Rows |-> None]
    /\ attempts = [r \in Rows |-> {}]
    /\ identified = {}
    /\ queue = <<>>
    /\ groupState = [g \in Groups |-> "ABSENT"]
    /\ groupClaim = [g \in Groups |-> None]
    /\ reservation = [g \in Groups |-> None]
    /\ documents = {} /\ chunked = {} /\ tried = {}
    /\ embedded = [g \in Groups |-> 0]
    /\ holds = [b \in Batches |-> {}]
    /\ pc = [w \in Workers |-> "idle"]
    /\ stage = [w \in Workers |-> 1]
    /\ item = [w \in Workers |-> None]
    /\ had = [w \in Workers |-> {}]
    /\ failures = 0 /\ shorts = 0 /\ deaths = 0 /\ resets = 0
    /\ smooth = [w \in Workers |-> FALSE]
-----------------------------------------------------------------------------
(* Creation                                                                *)

MaterializedOn(drive) == UNION {rows[b] : b \in {b \in Batches : Ask[b].drive = drive}}

\* Mutant: create_batch takes no lock.
NoLock(b) == TRUE

\* pg_advisory_xact_lock on the discovery run.
LockFree(b) == \A a \in Batches : Ask[a].drive = Ask[b].drive => call[a] # "selecting"

\* t7_chain2_retry_failed_batch refuses groups that are not CHUNKED.
MayAsk(b) == \A g \in Ask[b].needs : groupState[g] = "CHUNKED"

\* The lock is taken and the paths of the run's earlier batches are read.
ReadMaterialized(b) ==
    /\ b \in scenario.calls
    /\ call[b] = "waiting"
    /\ LockFree(b)
    /\ MayAsk(b)
    /\ materialized' = [materialized EXCEPT ![b] = MaterializedOn(Ask[b].drive)]
    /\ call' = [call EXCEPT ![b] = "selecting"]
    /\ UNCHANGED <<created, rows, status, rowVars, extractedBytes, groupVars, groupClaim,
                   embedVars, processVars, boundVars>>

\* The selected rows and their batch in one commit; nothing if none is selected.
CreateBatch(b) ==
    LET chosen == Selection(Ask[b].seen \ materialized[b], Ask[b]) IN
    /\ call[b] = "selecting"
    /\ call' = [call EXCEPT ![b] = "done"]
    /\ IF chosen = {} THEN UNCHANGED <<created, rows, status>>
       ELSE /\ rows' = [rows EXCEPT ![b] = chosen]
            /\ created' = Append(created, b)
            /\ status' = [status EXCEPT ![b] = "PLANNED"]
    /\ UNCHANGED <<materialized, rowVars, extractedBytes, groupVars, groupClaim, embedVars,
                   processVars, boundVars>>
-----------------------------------------------------------------------------
(* Operators                                                               *)

SetStatus(b, from, to) ==
    /\ status[b] = from
    /\ status' = [status EXCEPT ![b] = to]
    /\ UNCHANGED <<creationVars, rowVars, extractedBytes, groupVars, groupClaim, embedVars,
                   pc, stage, item, had, boundVars>>

Start(b) == SetStatus(b, "PLANNED", "RUNNING") /\ UNCHANGED smooth

Pause(b) ==
    /\ "control" \in scenario.faults
    /\ SetStatus(b, "RUNNING", "PAUSED")
    /\ smooth' = [w \in Workers |-> FALSE]

Resume(b) == SetStatus(b, "PAUSED", "RUNNING") /\ UNCHANGED smooth

\* An operator gives a failed group another chance.
ResetGroup(g) ==
    /\ groupState[g] = "FAILED"
    /\ resets < scenario.resets
    /\ groupState' = [groupState EXCEPT ![g] = "CHUNKED"]
    /\ groupClaim' = [groupClaim EXCEPT ![g] = None]
    /\ resets' = resets + 1
    /\ smooth' = [w \in Workers |-> FALSE]
    /\ UNCHANGED <<creationVars, status, rowVars, extractedBytes, queue, documents, chunked,
                   embedded, tried, holds, embedVars, pc, stage, item, had, failures, shorts,
                   deaths>>
-----------------------------------------------------------------------------
(* One pass                                                                *)

Job(w) == scenario.job[w]

\* No claim is outstanding.
Unclaimed == (\A r \in Rows : rowClaim[r] = None) /\ \A g \in Groups : groupClaim[g] = None

Alone(w) == \A v \in Workers \ {w} : pc[v] \in {"idle", "done"}

\* run_once begins: the first pass of a process, or the next of its loop.
Begin(w) ==
    /\ \/ pc[w] = "idle"
       \/ pc[w] = "rest" /\ w \in scenario.loops /\ status[Job(w)] \notin BatchFinal
    /\ Job(w) \in ToSet(created)
    /\ pc' = [pc EXCEPT ![w] = "claim"]
    /\ stage' = [stage EXCEPT ![w] = 1]
    /\ had' = [had EXCEPT ![w] = {}]
    /\ smooth' = [v \in Workers |-> v = w /\ Alone(w) /\ Unclaimed /\ status[Job(w)] = "RUNNING"]
    /\ UNCHANGED <<creationVars, status, rowVars, extractedBytes, groupVars, groupClaim,
                   embedVars, item, boundVars>>

\* The one pass of run_ingestion_batch, or a terminal batch, ends the process.
Return(w) ==
    /\ pc[w] = "rest"
    /\ w \notin scenario.loops \/ status[Job(w)] \in BatchFinal
    /\ pc' = [pc EXCEPT ![w] = "done"]
    /\ UNCHANGED <<creationVars, status, rowVars, extractedBytes, groupVars, groupClaim,
                   embedVars, stage, item, had, smooth, boundVars>>

\* The claims look at the raw suffix.
ArchiveRow(c) == Suffix[c] = "zip"

Claimable(b, c) ==
    /\ c \in rows[b]
    /\ <<b, c>> \notin identified
    /\ "SUCCEEDED" \notin attempts[<<b, c>>]
    /\ rowClaim[<<b, c>>] = None

\* What the claim of a source stage selects, of a RUNNING batch.
RowsFor(w) ==
    {c \in Paths : /\ stage[w] \in {1, 2}
                   /\ status[Job(w)] = "RUNNING"
                   /\ Claimable(Job(w), c)
                   /\ ArchiveRow(c) <=> stage[w] = 1}

\* Mutant: the rows had in this pass are not excluded from the query; the pass
\* stops when the oldest of them is one that it has had.
StopAtSeen(w) == IF RowsFor(w) # {} /\ Min(RowsFor(w)) \in had[w] THEN {} ELSE RowsFor(w)

\* exclude_ids
NextRows(w) == RowsFor(w) \ had[w]

\* What the claim of a group stage selects, of any batch.
NextGroups(w) ==
    {g \in Groups : /\ stage[w] >= 3
                    /\ groupState[g] \in ClaimedFrom[stage[w]]
                    /\ groupClaim[g] = None}

\* What is not embedded yet is what an admission charges, and a reservation holds.
Unembedded(g) == IF g \in chunked THEN Chunks[g] - embedded[g] ELSE 0

\* The claim of an archive or a file: the oldest row, of the first path.
ClaimRow(w) ==
    /\ pc[w] = "claim"
    /\ NextRows(w) # {}
    /\ LET c == Min(NextRows(w)) IN
       /\ rowClaim' = [rowClaim EXCEPT ![<<Job(w), c>>] = w]
       /\ item' = [item EXCEPT ![w] = c]
       /\ had' = [had EXCEPT ![w] = @ \cup {c}]
    /\ pc' = [pc EXCEPT ![w] = IF stage[w] = 1 THEN "admit" ELSE "work"]
    /\ UNCHANGED <<creationVars, status, attempts, identified, extractedBytes, groupVars,
                   groupClaim, embedVars, stage, smooth, boundVars>>

\* The claim of a group: the oldest; a reservation left on it is given back.
ClaimGroup(w) ==
    /\ pc[w] = "claim"
    /\ NextGroups(w) # {}
    /\ LET group == queue[SelectInSeq(queue, LAMBDA g : g \in NextGroups(w))] IN
       /\ groupClaim' = [groupClaim EXCEPT ![group] = w]
       /\ item' = [item EXCEPT ![w] = group]
       /\ IF reservation[group] = None THEN UNCHANGED embedVars
          ELSE /\ reservation' = [reservation EXCEPT ![group] = None]
               /\ embeddingsReserved' =
                     [embeddingsReserved EXCEPT ![reservation[group]] = @ - Unembedded(group)]
    /\ pc' = [pc EXCEPT ![w] = IF stage[w] = 5 THEN "admit" ELSE "work"]
    /\ UNCHANGED <<creationVars, status, rowVars, extractedBytes, groupVars, stage, had,
                   smooth, boundVars>>

\* The next stage of the pass or, after the last, check_and_complete.
NextStage(w) ==
    /\ IF stage[w] < Len(Stages)
       THEN stage' = [stage EXCEPT ![w] = @ + 1] /\ pc' = [pc EXCEPT ![w] = "claim"]
       ELSE pc' = [pc EXCEPT ![w] = "complete"] /\ UNCHANGED stage
    /\ had' = [had EXCEPT ![w] = {}]

\* The claim finds nothing more, and returns None.
EndStage(w) ==
    /\ pc[w] = "claim"
    /\ NextRows(w) = {} /\ NextGroups(w) = {}
    /\ NextStage(w)
    /\ UNCHANGED <<creationVars, status, rowVars, extractedBytes, groupVars, groupClaim,
                   embedVars, item, smooth, boundVars>>

\* A call is over: its claim is released and the stage goes on.
Over(w) ==
    /\ pc' = [pc EXCEPT ![w] = "claim"]
    /\ item' = [item EXCEPT ![w] = None]

\* A denied admission releases the claim and returns None too.
Denied(w) ==
    /\ NextStage(w)
    /\ item' = [item EXCEPT ![w] = None]
    /\ smooth' = [smooth EXCEPT ![w] = FALSE]
-----------------------------------------------------------------------------
(* The source stages                                                       *)

MyRow(w) == <<Job(w), item[w]>>

ReleaseRow(w) == rowClaim' = [rowClaim EXCEPT ![MyRow(w)] = None]

\* _preflight_admit
AdmitArchive(w) ==
    LET b == Job(w)
        total == extractedBytes[b] + SizeMB[item[w]]
        admitted == /\ status[b] = "RUNNING"
                    /\ Ask[b].maxExtracted # None => total <= Ask[b].maxExtracted
    IN
    /\ pc[w] = "admit" /\ stage[w] = 1
    /\ \/ /\ admitted
          /\ extractedBytes' = IF Ask[b].maxExtracted = None THEN extractedBytes
                               ELSE [extractedBytes EXCEPT ![b] = total]
          /\ pc' = [pc EXCEPT ![w] = "work"]
          /\ UNCHANGED <<rowClaim, stage, item, had, smooth>>
       \/ /\ ~admitted
          /\ ReleaseRow(w)
          /\ Denied(w)
          /\ UNCHANGED extractedBytes
    /\ UNCHANGED <<creationVars, status, attempts, identified, groupVars, groupClaim,
                   embedVars, boundVars>>

\* get_or_create_group for each of contents, in this order.
FindGroups(contents) ==
    LET new == SelectSeq(contents, LAMBDA g : groupState[g] = "ABSENT") IN
    /\ queue' = queue \o FoldLeft(LAMBDA s, g : IF g \in ToSet(s) THEN s ELSE Append(s, g), <<>>, new)
    /\ groupState' = [g \in Groups |-> IF groupState[g] = "ABSENT" /\ g \in ToSet(contents)
                                       THEN InitialState[g] ELSE groupState[g]]

Attempted(w, outcome) == attempts' = [attempts EXCEPT ![MyRow(w)] = @ \cup {outcome}]

\* A failure that another attempt may overcome.
FailRetryably(w) ==
    /\ failures < scenario.failures
    /\ failures' = failures + 1
    /\ Attempted(w, "RETRYABLE")
    /\ smooth' = [smooth EXCEPT ![w] = FALSE]

\* _process_claimed_archive: the leaves before a failure are kept; bytes that
\* were reserved for a failure are given back.
ProcessArchive(w) ==
    LET b == Job(w)
        a == item[w]
    IN
    /\ pc[w] = "work" /\ stage[w] = 1
    /\ \E n \in 0..Len(Walk[a]) :
          /\ FindGroups(SubSeq(Walk[a], 1, n))
          /\ holds' = [holds EXCEPT ![b] = @ \cup {Walk[a][i] : i \in 1..n}]
          /\ \/ /\ n = Len(Walk[a]) /\ a \notin TooDeep
                /\ Attempted(w, "SUCCEEDED")
                /\ UNCHANGED <<extractedBytes, failures, smooth>>
             \/ /\ \/ /\ n = Len(Walk[a]) /\ a \in TooDeep
                      /\ Attempted(w, "DURABLE")
                      /\ UNCHANGED <<failures, smooth>>
                   \/ FailRetryably(w)
                /\ extractedBytes' = IF Ask[b].maxExtracted = None THEN extractedBytes
                                     ELSE [extractedBytes EXCEPT ![b] = @ - SizeMB[a]]
    /\ ReleaseRow(w)
    /\ Over(w)
    /\ UNCHANGED <<creationVars, status, identified, documents, chunked, embedded, tried,
                   groupClaim, embedVars, stage, had, shorts, deaths, resets>>

\* _resolve_claimed_instance
ResolveFile(w) ==
    LET g == ContentOf[item[w]] IN
    /\ pc[w] = "work" /\ stage[w] = 2
    /\ \/ /\ FindGroups(<<g>>)
          /\ holds' = [holds EXCEPT ![Job(w)] = @ \cup {g}]
          /\ identified' = identified \cup {MyRow(w)}
          /\ Attempted(w, "SUCCEEDED")
          /\ UNCHANGED <<failures, smooth>>
       \/ /\ FailRetryably(w)
          /\ UNCHANGED <<queue, groupState, holds, identified>>
    /\ ReleaseRow(w)
    /\ Over(w)
    /\ UNCHANGED <<creationVars, status, extractedBytes, documents, chunked, embedded, tried,
                   groupClaim, embedVars, stage, had, shorts, deaths, resets>>
-----------------------------------------------------------------------------
(* The group stages                                                        *)

\* The attempt is recorded and the claim released with the new state.
Leave(w, state) ==
    /\ groupState' = [groupState EXCEPT ![item[w]] = state]
    /\ groupClaim' = [groupClaim EXCEPT ![item[w]] = None]
    /\ tried' = tried \cup {item[w]}
    /\ Over(w)

\* normalize_next and chunk_next
PrepareGroup(w) ==
    /\ pc[w] = "work" /\ stage[w] \in {3, 4}
    /\ \/ /\ stage[w] = 3
          /\ Leave(w, "NORMALIZED")
          /\ documents' = documents \cup {item[w]}
          /\ UNCHANGED chunked
       \/ /\ stage[w] = 4
          /\ Leave(w, "CHUNKED")
          /\ chunked' = chunked \cup {item[w]}
          /\ UNCHANGED documents
       \/ /\ "pipeline" \in scenario.faults
          /\ Leave(w, "FAILED")
          /\ UNCHANGED <<documents, chunked>>
    /\ UNCHANGED <<creationVars, status, rowVars, extractedBytes, queue, embedded, holds,
                   embedVars, stage, had, smooth, boundVars>>

\* The RUNNING batches with an occurrence of g, oldest first.
Owners(g) == SelectSeq(created, LAMBDA b : status[b] = "RUNNING" /\ g \in holds[b])

\* embeddings_reserved + n <= max_embeddings
Affordable(b, n) == embeddingsReserved[b] + n <= Ask[b].maxEmbeddings

\* _embed_claimed_group up to the reservation: a group without a document fails,
\* one with nothing left to embed is done, one that no running batch holds is not
\* charged.
AdmitGroup(w) ==
    LET g == item[w]
        n == Unembedded(g)
        owner == Owners(g)[1]
    IN
    /\ pc[w] = "admit" /\ stage[w] = 5
    /\ \/ /\ n = 0
          /\ Leave(w, IF g \in documents THEN "INGESTED" ELSE "FAILED")
          /\ UNCHANGED <<embedVars, stage, had, smooth>>
       \/ /\ n > 0 /\ Owners(g) = <<>>
          /\ pc' = [pc EXCEPT ![w] = "work"]
          /\ UNCHANGED <<embedVars, groupState, groupClaim, tried, stage, item, had, smooth>>
       \/ /\ n > 0 /\ Owners(g) # <<>> /\ Affordable(owner, n)
          /\ reservation' = [reservation EXCEPT ![g] = owner]
          /\ embeddingsReserved' = [embeddingsReserved EXCEPT ![owner] = @ + n]
          /\ pc' = [pc EXCEPT ![w] = "work"]
          /\ UNCHANGED <<groupState, groupClaim, tried, stage, item, had, smooth>>
       \/ /\ n > 0 /\ Owners(g) # <<>> /\ ~Affordable(owner, n)
          /\ groupClaim' = [groupClaim EXCEPT ![g] = None]
          /\ Denied(w)
          /\ UNCHANGED <<embedVars, groupState, tried>>
    /\ UNCHANGED <<creationVars, status, rowVars, extractedBytes, queue, documents, chunked,
                   embedded, holds, boundVars>>

\* The embeddings are written, with what the reply is short of left to another
\* claim, and its charge, though all of this one is consumed; or the server fails
\* and what was reserved is given back.
EmbedGroup(w) ==
    LET g == item[w] IN
    /\ pc[w] = "work" /\ stage[w] = 5
    /\ reservation' = [reservation EXCEPT ![g] = None]
    /\ \/ /\ Leave(w, "INGESTED")
          /\ embedded' = [embedded EXCEPT ![g] = Chunks[g]]
          /\ UNCHANGED <<embeddingsReserved, shorts>>
       \/ /\ shorts < scenario.shorts
          /\ shorts' = shorts + 1
          /\ Leave(w, "EMBEDDED")
          /\ \E n \in embedded[g] .. Chunks[g] - 1 : embedded' = [embedded EXCEPT ![g] = n]
          /\ UNCHANGED embeddingsReserved
       \/ /\ "pipeline" \in scenario.faults
          /\ Leave(w, "FAILED")
          /\ embeddingsReserved' =
                IF reservation[g] = None THEN embeddingsReserved
                ELSE [embeddingsReserved EXCEPT ![reservation[g]] = @ - Unembedded(g)]
          /\ UNCHANGED <<embedded, shorts>>
    /\ UNCHANGED <<creationVars, status, rowVars, extractedBytes, queue, documents, chunked,
                   holds, stage, had, smooth, failures, deaths, resets>>
-----------------------------------------------------------------------------
(* The end of a pass                                                       *)

RowAttempted(b, c) ==
    \/ attempts[<<b, c>>] # {}
    \/ <<b, c>> \in identified /\ ContentOf[c] \in tried

\* Mutant: a failure is never final, not even a durable one.
TerminalBySuccess(b, c) ==
    IF SourceCategory(c) = "ARCHIVE"
    THEN "SUCCEEDED" \in attempts[<<b, c>>]
    ELSE <<b, c>> \in identified /\ groupState[ContentOf[c]] \in TerminalStates

RowTerminal(b, c) ==
    IF SourceCategory(c) = "ARCHIVE"
    THEN attempts[<<b, c>>] \cap {"SUCCEEDED", "DURABLE"} # {}
    ELSE <<b, c>> \in identified /\ groupState[ContentOf[c]] \in TerminalStates

\* check_and_complete
Complete(w) ==
    LET b == Job(w) IN
    /\ pc[w] = "complete"
    /\ IF status[b] = "RUNNING" /\ \A c \in rows[b] : RowAttempted(b, c) /\ RowTerminal(b, c)
       THEN status' = [status EXCEPT ![b] = "COMPLETED"]
       ELSE UNCHANGED status
    /\ pc' = [pc EXCEPT ![w] = "rest"]
    /\ UNCHANGED <<creationVars, rowVars, extractedBytes, groupVars, groupClaim, embedVars,
                   stage, item, had, smooth, boundVars>>

\* A process dies, and the operator runs the script again.
Die(w) ==
    /\ pc[w] \notin {"idle", "done"}
    /\ deaths < scenario.deaths
    /\ deaths' = deaths + 1
    /\ pc' = [pc EXCEPT ![w] = "idle"]
    /\ item' = [item EXCEPT ![w] = None]
    /\ smooth' = [smooth EXCEPT ![w] = FALSE]
    /\ UNCHANGED <<creationVars, status, rowVars, extractedBytes, groupVars, groupClaim,
                   embedVars, stage, had, failures, shorts, resets>>

\* The claim of a process that died outlives its lease; to a claim query that is
\* the same as no claim.
LeaseExpires ==
    /\ \/ \E r \in Rows :
             /\ rowClaim[r] # None
             /\ LET w == rowClaim[r] IN ~(stage[w] \in {1, 2} /\ item[w] = r[2] /\ Job(w) = r[1])
             /\ rowClaim' = [rowClaim EXCEPT ![r] = None]
             /\ UNCHANGED groupClaim
       \/ \E g \in Groups :
             /\ groupClaim[g] # None
             /\ item[groupClaim[g]] # g
             /\ groupClaim' = [groupClaim EXCEPT ![g] = None]
             /\ UNCHANGED rowClaim
    /\ UNCHANGED <<creationVars, status, attempts, identified, extractedBytes, groupVars,
                   embedVars, processVars, boundVars>>

\* One step of w's process.
Step(w) ==
    /\ Job(w) # None
    /\ \/ Begin(w) \/ Return(w)
       \/ ClaimRow(w) \/ ClaimGroup(w) \/ EndStage(w)
       \/ AdmitArchive(w) \/ ProcessArchive(w) \/ ResolveFile(w)
       \/ PrepareGroup(w) \/ AdmitGroup(w) \/ EmbedGroup(w)
       \/ Complete(w)

Create(b) == ReadMaterialized(b) \/ CreateBatch(b)

Next ==
    /\ \/ \E b \in Batches : Create(b) \/ Start(b) \/ Pause(b) \/ Resume(b)
       \/ \E g \in Groups : ResetGroup(g)
       \/ \E w \in Workers : Step(w) \/ Die(w)
       \/ LeaseExpires
    /\ UNCHANGED scenario

\* A call of create_batch and a process run on; the operator starts and resumes
\* what was created, and a lease ends.
Fairness ==
    /\ WF_vars((\E b \in Batches : Create(b)) /\ UNCHANGED scenario)
    /\ WF_vars((\E b \in Batches : Start(b) \/ Resume(b)) /\ UNCHANGED scenario)
    /\ \A w \in Workers : WF_vars(Step(w) /\ UNCHANGED scenario)
    /\ WF_vars(LeaseExpires /\ UNCHANGED scenario)

Spec == Init /\ [][Next]_vars /\ Fairness
-----------------------------------------------------------------------------
(* Properties                                                              *)

\* A file of a drive is materialized in one batch of that drive at most, though
\* several calls of create_batch may run at once.  create_batch, the lock.
NoPathTwice ==
    \A a, b \in Batches : a # b /\ Ask[a].drive = Ask[b].drive => rows[a] \cap rows[b] = {}

\* No batch takes a file while an earlier one, that its policy allows and that
\* is no duplicate of one before, was left out of every batch.  select: stop, never skip.
NothingPassedOver ==
    \A b \in Batches : \A c \in Ask[b].seen :
        (/\ c \notin Deferred(Ask[b].seen)
         /\ Matches(Ask[b].policy, c)
         /\ \E d \in rows[b] : c < d)
        => c \in MaterializedOn(Ask[b].drive)

\* One pass in the fixed order of stages is enough: when it has the database to
\* itself, and nothing was denied or failed in a way worth a retry, the batch
\* is complete and every content found in it has reached the end of the
\* pipeline, however many rows failed for good.  run_once.
OnePassSuffices ==
    \A w \in Workers :
        pc[w] = "rest" /\ smooth[w] =>
            /\ status[Job(w)] = "COMPLETED"
            /\ \A g \in holds[Job(w)] : groupState[g] \in TerminalStates

\* Nothing that the batches may ever hold, or be charged again after a short reply,
\* can exceed an envelope, and nobody pauses them.
Ample ==
    /\ "control" \notin scenario.faults
    /\ scenario.resets = 0
    /\ \A b \in scenario.calls :
          /\ Ask[b].needs = {}
          /\ Ask[b].maxExtracted = None
          /\ SumFunctionOnSet(Chunks, Groups) + scenario.shorts * Max(Range(Chunks))
                <= Ask[b].maxEmbeddings

\* The run loop finishes every batch that it is given, through failures, short
\* replies, deaths and restarts, when the batch has room for its work.
\* t7_chain2_priority2_run_loop.
LoopFinishes ==
    Ample => <>[](\A w \in scenario.loops :
                    call[Job(w)] = "done" /\ status[Job(w)] \in {None, "COMPLETED"})

\* "it actually reaches every other distinct, eligible row before stopping":
\* a stage ends only when no row is left that it could claim and has not had.
\* _run_stage_to_exhaustion.
ReachesEveryRow ==
    [][\A w \in Workers :
          pc[w] \in {"claim", "admit"} /\ pc'[w] # "idle"
              /\ (stage'[w] # stage[w] \/ pc'[w] = "complete")
          => NextRows(w) = {} /\ NextGroups(w) \subseteq {item[w]}]_vars
=============================================================================
