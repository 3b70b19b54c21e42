--------------------------- MODULE ContentPipeline ---------------------------
(***************************************************************************)
(* The content-identity half of the batch ingestion pipeline: workers      *)
(* claim ContentIdentityGroup rows from a shared Postgres table, and       *)
(* normalize, chunk and embed them.                                        *)
(*                                                                         *)
(*   WorkerClaimService        Claim, ReadClaim, Reserve, Consume,         *)
(*                             Unreserve, Unclaim, Release                 *)
(*   NormalizationService      Normalize, FindDocument, InsertDocument     *)
(*   ChunkingService           ChunkLookup, ExtractForChunks, InsertChunks *)
(*   PipelineEmbeddingService  EmbedLookup, Embed, WriteVectors            *)
(*   IngestionAttemptService   RecordSuccess, RecordFailure                *)
(*                                                                         *)
(* One action is one database transaction or one external call; between    *)
(* two of them any other worker may run, the worker may die, and its lease *)
(* may run out.  A worker is the thread of one run_once invocation.  The   *)
(* session keeps loaded objects across commits (expire_on_commit=False),   *)
(* so the generation a worker fences with is the one it loaded; a rollback *)
(* of an open transaction expires the object and the next access reloads   *)
(* the row, whoever owns it by then.                                       *)
(***************************************************************************)
EXTENDS BatchStates, Integers, FiniteSets, Functions

CONSTANTS
    Groups,         \* ContentIdentityGroup rows
    Workers,        \* concurrent run_once invocations
    Batches,        \* IngestionBatch ids
    None,           \* SQL NULL
    NChunks,        \* [Groups -> Nat]: how many chunks chunk_text yields
    MaxEmbeddings,  \* [Batches -> Nat]: max_embeddings
    CreatedAt,      \* [Groups -> Nat]: created_at, the order of the queue
    Scenarios       \* the circumstances to consider, see ScopeAssumption

Stages == {"NORMALIZING", "CHUNKING", "EMBEDDING"}

Outcomes == {"SUCCEEDED", "FAILED"}

States == {"EXTRACTED", "NORMALIZED", "CHUNKED", "EMBEDDED", "INGESTED", "FAILED"}

\* Where one claim per stage, free of trouble, leaves a row.
StartStates == {"EXTRACTED", "NORMALIZED", "CHUNKED", "INGESTED"}

\* No claim query lists these states.
TerminalStates == {"INGESTED", "FAILED"}

FaultKinds ==
    {"extract",      \* extract_text raises
     "embed",        \* the embedding server fails
     "shortReply",   \* it answers with fewer vectors than texts
     "vectorWrite",  \* the commit of the vectors is refused
     "guard",        \* the resource guard refuses the reservation
     "control"}      \* operators move batches between statuses

Steps == {"idle", "claimed", "normalize", "findDocument", "insertDocument",
          "chunkLookup", "chunkExtract", "chunkInsert",
          "embedLookup", "reserve", "embed", "writeVectors",
          "succeed", "fail", "consume", "unreserve", "unclaim", "release"}

\* The generation of an object that is not loaded, or was expired.
Unloaded == -1

ASSUME GroupsAssumption == IsFiniteSet(Groups)
ASSUME BatchesAssumption == Batches \subseteq Nat
ASSUME NoneAssumption ==
    None \notin Batches /\ None \notin Groups \cup Workers \cup States
ASSUME SizesAssumption ==
    /\ NChunks \in [Groups -> Nat]
    /\ MaxEmbeddings \in [Batches -> Nat]
    /\ CreatedAt \in [Groups -> Nat]

\* A scenario says how far earlier runs got, which files hold a group's bytes,
\* in which steps a live worker may outlast its lease and what the environment
\* may do; it bounds the claims granted on one row and the deaths of workers.
ASSUME ScopeAssumption ==
    \A s \in Scenarios :
        /\ s.start \in [Groups -> StartStates]
        /\ s.occurrences \subseteq Batches \X Groups
        /\ s.stalls \subseteq Steps \ {"idle"}
        /\ s.faults \subseteq FaultKinds
        /\ s.claims \in Nat
        /\ s.deaths \in Nat

VARIABLES
    \* content_identity_groups
    pipelineState, claimedBy, expired, claimGeneration,
    reservedEmbeddings, reservedBatch,
    \* the workspace file, documents, document_chunks, ingestion_attempts
    content, documents, chunked, embedded, attempts,
    \* source_instances: the batches with an occurrence resolved to a group
    owners,
    \* ingestion_batches
    batchStatus, embeddingsReserved,
    \* history: embeddings of each batch whose reservation was consumed
    consumed,
    \* the workers' program state
    pc, stage, grp, gen, base, charged, final, crashes,
    \* the scenario this behaviour belongs to
    scenario

rowVars == <<pipelineState, claimedBy, expired, claimGeneration>>
reservationVars == <<reservedEmbeddings, reservedBatch, embeddingsReserved, consumed>>
artifactVars == <<documents, chunked, embedded>>
sourceVars == <<content, owners>>
workerVars == <<stage, grp, gen, base, charged, final>>
vars == <<rowVars, reservationVars, artifactVars, sourceVars, attempts,
          batchStatus, pc, workerVars, crashes, scenario>>

RowTypeOK ==
    /\ pipelineState \in [Groups -> States]
    /\ claimedBy \in [Groups -> Workers \cup {None}]
    /\ expired \subseteq Groups
    /\ claimGeneration \in [Groups -> Nat]

ReservationTypeOK ==
    /\ reservedEmbeddings \in [Groups -> Nat]
    /\ reservedBatch \in [Groups -> Batches \cup {None}]
    /\ embeddingsReserved \in [Batches -> Int]
    /\ consumed \in [Batches -> Nat]

ArtifactTypeOK ==
    /\ content \subseteq Groups
    /\ documents \subseteq Groups
    /\ chunked \subseteq Groups
    /\ embedded \in [Groups -> Nat]
    /\ \A g \in Groups : embedded[g] <= NChunks[g]
    /\ attempts \subseteq Groups \X Stages \X Outcomes
    /\ owners \in [Groups -> SUBSET Batches]
    /\ batchStatus \in [Batches -> BatchStatus]

WorkerTypeOK ==
    /\ pc \in [Workers -> Steps]
    /\ stage \in [Workers -> Stages]
    /\ grp \in [Workers -> Groups \cup {None}]
    /\ gen \in [Workers -> Nat \cup {Unloaded}]
    /\ base \in [Workers -> Nat]
    /\ charged \in [Workers -> Batches \cup {None}]
    /\ final \in [Workers -> States \cup {None}]
    /\ crashes \in Nat
    /\ \A w \in Workers : pc[w] # "idle" => grp[w] \in Groups

TypeOK ==
    RowTypeOK /\ ReservationTypeOK /\ ArtifactTypeOK /\ WorkerTypeOK /\ scenario \in Scenarios

StartedWith(g, states) == scenario.start[g] \in states

\* Rows as identity resolution leaves them (EXTRACTED is committed by
\* get_or_create_group, the workspace file is written after it), or as
\* untroubled earlier runs left them, one claim per stage.
Init ==
    /\ scenario \in Scenarios
    /\ pipelineState = scenario.start
    /\ claimedBy = [g \in Groups |-> None]
    /\ expired = {}
    /\ claimGeneration = [g \in Groups |->
          CASE scenario.start[g] = "EXTRACTED" -> 0
            [] scenario.start[g] = "NORMALIZED" -> 1
            [] scenario.start[g] = "CHUNKED" -> 2
            [] scenario.start[g] = "INGESTED" -> 3]
    /\ reservedEmbeddings = [g \in Groups |-> 0]
    /\ reservedBatch = [g \in Groups |-> None]
    /\ documents = {g \in Groups : scenario.start[g] # "EXTRACTED"}
    /\ content \in {c \in SUBSET Groups : documents \subseteq c}
    /\ chunked = {g \in Groups : StartedWith(g, {"CHUNKED", "INGESTED"}) /\ NChunks[g] > 0}
    /\ embedded = [g \in Groups |-> IF StartedWith(g, {"INGESTED"}) THEN NChunks[g] ELSE 0]
    /\ attempts = {<<g, "NORMALIZING", "SUCCEEDED">> : g \in documents}
             \cup {<<g, "CHUNKING", "SUCCEEDED">> :
                      g \in {h \in Groups : StartedWith(h, {"CHUNKED", "INGESTED"})}}
             \cup {<<g, "EMBEDDING", "SUCCEEDED">> :
                      g \in {h \in Groups : StartedWith(h, {"INGESTED"})}}
    /\ owners = [g \in Groups |-> {}]
    /\ batchStatus = [b \in Batches |-> "RUNNING"]
    /\ embeddingsReserved = [b \in Batches |-> 0]
    /\ consumed = [b \in Batches |-> 0]
    /\ pc = [w \in Workers |-> "idle"]
    /\ stage = [w \in Workers |-> "NORMALIZING"]
    /\ grp = [w \in Workers |-> None]
    /\ gen = [w \in Workers |-> Unloaded]
    /\ base = [w \in Workers |-> 0]
    /\ charged = [w \in Workers |-> None]
    /\ final = [w \in Workers |-> None]
    /\ crashes = 0

-----------------------------------------------------------------------------
(* Helpers                                                                 *)

Goto(w, step) == pc' = [pc EXCEPT ![w] = step]

\* The states each service's claim query lists.
EligibleStates(s) ==
    CASE s = "NORMALIZING" -> {"EXTRACTED"}
      [] s = "CHUNKING"    -> {"NORMALIZED"}
      [] s = "EMBEDDING"   -> {"CHUNKED", "EMBEDDED"}

FirstStep(s) ==
    CASE s = "NORMALIZING" -> "normalize"
      [] s = "CHUNKING"    -> "chunkLookup"
      [] s = "EMBEDDING"   -> "embedLookup"

\* Mutant: no look at the lease.
ClaimableWhenFree(g, s) == pipelineState[g] \in EligibleStates(s) /\ claimedBy[g] = None

Claimable(g, s) ==
    /\ pipelineState[g] \in EligibleStates(s)
    /\ claimedBy[g] = None \/ g \in expired

\* SKIP LOCKED passes over a row while another worker's transaction holds it:
\* a worker busy on the row, or one whose own claim is under way.
MaybeLocked(g, w) == \E v \in Workers \ {w} : pc[v] = "idle" \/ grp[v] = g

\* The generation w names in its next fenced statement.
MyGeneration(w) == IF gen[w] = Unloaded THEN claimGeneration[grp[w]] ELSE gen[w]

\* Mutant: the generation is not compared.
NotFenced(w) == TRUE

\* The statement's WHERE clause on claim_generation matches.
Fenced(w) == claimGeneration[grp[w]] = MyGeneration(w)

\* Chunk rows of g, and those whose embedding IS NULL.
Unembedded(g) == IF g \in chunked THEN NChunks[g] - embedded[g] ELSE 0

RunningOwners(g) == {b \in owners[g] : batchStatus[b] = "RUNNING"}

\* Release of the claim, with a new pipeline_state unless s is None; a
\* worker whose generation is not the row's changes nothing.
ReleaseRow(w, s) ==
    LET g == grp[w] IN
    IF Fenced(w)
    THEN /\ claimedBy' = [claimedBy EXCEPT ![g] = None]
         /\ expired' = expired \ {g}
         /\ pipelineState' = IF s = None THEN pipelineState
                             ELSE [pipelineState EXCEPT ![g] = s]
         /\ UNCHANGED claimGeneration
    ELSE UNCHANGED rowVars

ClearReservation(g) ==
    /\ reservedEmbeddings' = [reservedEmbeddings EXCEPT ![g] = 0]
    /\ reservedBatch' = [reservedBatch EXCEPT ![g] = None]

\* Mutant: only a RUNNING batch gets its embeddings back.
CreditRunningOnly(g) ==
    IF reservedBatch[g] = None THEN embeddingsReserved
    ELSE IF batchStatus[reservedBatch[g]] # "RUNNING" THEN embeddingsReserved
    ELSE [embeddingsReserved EXCEPT ![reservedBatch[g]] = @ - reservedEmbeddings[g]]

\* embeddings_reserved with g's live reservation credited to its batch.
CreditBack(g) ==
    IF reservedBatch[g] = None THEN embeddingsReserved
    ELSE [embeddingsReserved EXCEPT ![reservedBatch[g]] = @ - reservedEmbeddings[g]]

\* Every grant, fresh or reclaimed, advances the generation by one.
NextGeneration(g) == claimGeneration[g] + 1

\* The invocation is over: its locals are gone.
Finish(w) ==
    /\ Goto(w, "idle")
    /\ grp' = [grp EXCEPT ![w] = None]
    /\ gen' = [gen EXCEPT ![w] = Unloaded]
    /\ base' = [base EXCEPT ![w] = 0]
    /\ charged' = [charged EXCEPT ![w] = None]
    /\ final' = [final EXCEPT ![w] = None]
    /\ UNCHANGED stage

-----------------------------------------------------------------------------
(* Claiming                                                                *)

\* claim_content_identity_group up to its commit: the oldest claimable row
\* gets a new generation, and a reservation its last holder left behind is
\* credited to the batch the row itself names.
Claim(w, s) ==
    /\ pc[w] = "idle"
    /\ \E g \in Groups :
        /\ Claimable(g, s)
        /\ claimGeneration[g] < scenario.claims
        /\ \A h \in Groups :
              Claimable(h, s) /\ CreatedAt[h] < CreatedAt[g] => MaybeLocked(h, w)
        /\ embeddingsReserved' = CreditBack(g)
        /\ ClearReservation(g)
        /\ claimedBy' = [claimedBy EXCEPT ![g] = w]
        /\ expired' = expired \ {g}
        /\ claimGeneration' = [claimGeneration EXCEPT ![g] = NextGeneration(g)]
        /\ grp' = [grp EXCEPT ![w] = g]
    /\ stage' = [stage EXCEPT ![w] = s]
    /\ Goto(w, "claimed")
    /\ UNCHANGED <<pipelineState, consumed, artifactVars, sourceVars, attempts,
                   batchStatus, gen, base, charged, final, crashes>>

\* The db.get after that commit, a transaction of its own.
ReadClaim(w) ==
    /\ pc[w] = "claimed"
    /\ gen' = [gen EXCEPT ![w] = claimGeneration[grp[w]]]
    /\ Goto(w, FirstStep(stage[w]))
    /\ UNCHANGED <<rowVars, reservationVars, artifactVars, sourceVars, attempts,
                   batchStatus, stage, grp, base, charged, final, crashes>>

-----------------------------------------------------------------------------
(* Normalization                                                           *)

\* Locate the workspace file and try to extract its text.
Normalize(w) ==
    /\ pc[w] = "normalize"
    /\ \/ grp[w] \in content /\ Goto(w, "findDocument")
       \/ (grp[w] \notin content \/ "extract" \in scenario.faults) /\ Goto(w, "fail")
    /\ UNCHANGED <<rowVars, reservationVars, artifactVars, sourceVars, attempts,
                   batchStatus, workerVars, crashes>>

FindDocument(w) ==
    /\ pc[w] = "findDocument"
    /\ Goto(w, IF grp[w] \in documents THEN "succeed" ELSE "insertDocument")
    /\ UNCHANGED <<rowVars, reservationVars, artifactVars, sourceVars, attempts,
                   batchStatus, workerVars, crashes>>

\* create_document.  A second document of the group breaks its UNIQUE
\* constraint; DocumentService rolls back, which expires the group, and
\* normalize_next releases with the generation it then reloads.
InsertDocument(w) ==
    /\ pc[w] = "insertDocument"
    /\ IF grp[w] \in documents
       THEN /\ gen' = [gen EXCEPT ![w] = Unloaded]
            /\ Goto(w, "release")
            /\ UNCHANGED documents
       ELSE /\ documents' = documents \cup {grp[w]}
            /\ Goto(w, "succeed")
            /\ UNCHANGED gen
    /\ UNCHANGED <<rowVars, reservationVars, chunked, embedded, sourceVars, attempts,
                   batchStatus, stage, grp, base, charged, final, crashes>>

-----------------------------------------------------------------------------
(* Chunking                                                                *)

\* Chunks that exist are kept; otherwise the text is extracted again.
ChunkLookup(w) ==
    /\ pc[w] = "chunkLookup"
    /\ Goto(w, IF grp[w] \notin documents THEN "fail"
               ELSE IF grp[w] \in chunked THEN "succeed"
               ELSE IF grp[w] \notin content THEN "fail"
               ELSE "chunkExtract")
    /\ UNCHANGED <<rowVars, reservationVars, artifactVars, sourceVars, attempts,
                   batchStatus, workerVars, crashes>>

ExtractForChunks(w) ==
    /\ pc[w] = "chunkExtract"
    /\ \/ Goto(w, "chunkInsert")
       \/ "extract" \in scenario.faults /\ Goto(w, "fail")
    /\ UNCHANGED <<rowVars, reservationVars, artifactVars, sourceVars, attempts,
                   batchStatus, workerVars, crashes>>

\* All chunks in one transaction; UNIQUE(document_id, chunk_index) refuses a
\* second set, and the rollback expires the group before _fail reads it.
InsertChunks(w) ==
    /\ pc[w] = "chunkInsert"
    /\ IF grp[w] \in chunked
       THEN /\ gen' = [gen EXCEPT ![w] = Unloaded]
            /\ Goto(w, "fail")
            /\ UNCHANGED chunked
       ELSE /\ chunked' = IF NChunks[grp[w]] > 0 THEN chunked \cup {grp[w]} ELSE chunked
            /\ Goto(w, "succeed")
            /\ UNCHANGED gen
    /\ UNCHANGED <<rowVars, reservationVars, documents, embedded, sourceVars, attempts,
                   batchStatus, stage, grp, base, charged, final, crashes>>

-----------------------------------------------------------------------------
(* Embedding                                                               *)

\* What is left to embed, and the RUNNING batch of lowest id to charge.
EmbedLookup(w) ==
    LET g == grp[w] IN
    /\ pc[w] = "embedLookup"
    /\ base' = [base EXCEPT ![w] = embedded[g]]
    /\ IF g \notin documents \/ Unembedded(g) = 0 \/ RunningOwners(g) = {}
       THEN /\ Goto(w, IF g \notin documents THEN "fail"
                       ELSE IF Unembedded(g) = 0 THEN "succeed" ELSE "embed")
            /\ UNCHANGED charged
       ELSE /\ \E b \in RunningOwners(g) :
                 /\ \A c \in RunningOwners(g) : b <= c
                 /\ charged' = [charged EXCEPT ![w] = b]
            /\ Goto(w, "reserve")
    /\ UNCHANGED <<rowVars, reservationVars, artifactVars, sourceVars, attempts,
                   batchStatus, stage, grp, gen, final, crashes>>

\* Mutant: the envelope is compared before the amount is added.
AdmittedBeforeAdding(w) ==
    /\ Fenced(w)
    /\ batchStatus[charged[w]] = "RUNNING"
    /\ embeddingsReserved[charged[w]] <= MaxEmbeddings[charged[w]]

\* Both conditional UPDATEs of reserve_embeddings match.
Admitted(w) ==
    LET b == charged[w]  n == NChunks[grp[w]] - base[w] IN
    /\ Fenced(w)
    /\ batchStatus[b] = "RUNNING"
    /\ embeddingsReserved[b] + n <= MaxEmbeddings[b]

Reserve(w) ==
    LET g == grp[w]  b == charged[w]  n == NChunks[g] - base[w] IN
    /\ pc[w] = "reserve"
    /\ Admitted(w)
    /\ reservedEmbeddings' = [reservedEmbeddings EXCEPT ![g] = n]
    /\ reservedBatch' = [reservedBatch EXCEPT ![g] = b]
    /\ embeddingsReserved' = [embeddingsReserved EXCEPT ![b] = @ + n]
    /\ Goto(w, "embed")
    /\ UNCHANGED <<rowVars, consumed, artifactVars, sourceVars, attempts,
                   batchStatus, workerVars, crashes>>

\* Refused by the guard or by an UPDATE that matched no row: the claim is
\* released, nothing is recorded, the item is deferred.
ReserveDenied(w) ==
    /\ pc[w] = "reserve"
    /\ "guard" \in scenario.faults \/ ~Admitted(w)
    /\ Goto(w, "release")
    /\ UNCHANGED <<rowVars, reservationVars, artifactVars, sourceVars, attempts,
                   batchStatus, workerVars, crashes>>

\* The call to the embedding server.  The reservation was committed before
\* it, so the rollback on failure finds no open transaction and expires
\* nothing.
Embed(w) ==
    /\ pc[w] = "embed"
    /\ \/ Goto(w, "writeVectors")
       \/ "embed" \in scenario.faults /\ Goto(w, "fail")
    /\ UNCHANGED <<rowVars, reservationVars, artifactVars, sourceVars, attempts,
                   batchStatus, workerVars, crashes>>

\* How many of n texts get a vector: zip stops at the shorter list.
ReplySizes(n) == IF "shortReply" \in scenario.faults THEN 0..n ELSE {n}

\* Store the vectors received, for the first chunks of the snapshot; the
\* UPDATE of a chunk is not fenced.
WriteVectors(w) ==
    LET g == grp[w] IN
    /\ pc[w] = "writeVectors"
    /\ \E k \in ReplySizes(NChunks[g] - base[w]) :
          embedded' = [embedded EXCEPT ![g] = IF base[w] + k > @ THEN base[w] + k ELSE @]
    /\ Goto(w, "succeed")
    /\ UNCHANGED <<rowVars, reservationVars, documents, chunked, sourceVars, attempts,
                   batchStatus, workerVars, crashes>>

\* The commit of the vectors is refused.  With a reservation the handler
\* rolls back (the group expires) and fails the group; without one the
\* exception leaves through a session that accepts no further statement, so
\* the claim is left to its lease.
WriteVectorsFails(w) ==
    /\ pc[w] = "writeVectors"
    /\ "vectorWrite" \in scenario.faults
    /\ IF charged[w] # None
       THEN /\ gen' = [gen EXCEPT ![w] = Unloaded]
            /\ Goto(w, "fail")
            /\ UNCHANGED <<stage, grp, base, charged, final>>
       ELSE Finish(w)
    /\ UNCHANGED <<rowVars, reservationVars, artifactVars, sourceVars, attempts,
                   batchStatus, crashes>>

-----------------------------------------------------------------------------
(* The end of an attempt                                                   *)

\* Mutant: an attempt is kept once per outcome, not once per stage.
RecordedOncePerOutcome(w, outcome) ==
    IF \E s \in Stages : <<grp[w], s, outcome>> \in attempts THEN attempts
    ELSE attempts \cup {<<grp[w], stage[w], outcome>>}

\* record_pipeline_attempt: which group, which stage, which outcome.
Recorded(w, outcome) == attempts \cup {<<grp[w], stage[w], outcome>>}

\* Mutant: a successful embedding attempt always ends the pipeline.
FinalStateUncounted(w) ==
    CASE stage[w] = "NORMALIZING" -> "NORMALIZED"
      [] stage[w] = "CHUNKING"    -> "CHUNKED"
      [] stage[w] = "EMBEDDING"   -> "INGESTED"

\* The state a successful attempt releases the row with.
FinalState(w) ==
    CASE stage[w] = "NORMALIZING" -> "NORMALIZED"
      [] stage[w] = "CHUNKING"    -> "CHUNKED"
      [] stage[w] = "EMBEDDING"   ->
           IF Unembedded(grp[w]) = 0 THEN "INGESTED" ELSE "EMBEDDED"

RecordSuccess(w) ==
    /\ pc[w] = "succeed"
    /\ attempts' = Recorded(w, "SUCCEEDED")
    /\ final' = [final EXCEPT ![w] = FinalState(w)]
    /\ Goto(w, IF charged[w] # None THEN "consume" ELSE "release")
    /\ UNCHANGED <<rowVars, reservationVars, artifactVars, sourceVars, batchStatus,
                   stage, grp, gen, base, charged, crashes>>

AfterFailure(w) == IF charged[w] # None THEN "unreserve" ELSE "release"

\* _fail: an expired group is reloaded here.
RecordFailure(w) ==
    /\ pc[w] = "fail"
    /\ attempts' = Recorded(w, "FAILED")
    /\ gen' = [gen EXCEPT ![w] = MyGeneration(w)]
    /\ final' = [final EXCEPT ![w] = "FAILED"]
    /\ Goto(w, AfterFailure(w))
    /\ UNCHANGED <<rowVars, reservationVars, artifactVars, sourceVars, batchStatus,
                   stage, grp, base, charged, crashes>>

\* First transaction of consume_embedding_reservation: the charge stays.
Consume(w) ==
    LET g == grp[w] IN
    /\ pc[w] = "consume"
    /\ IF Fenced(w) /\ reservedBatch[g] # None
       THEN /\ ClearReservation(g)
            /\ consumed' = [consumed EXCEPT ![reservedBatch[g]] = @ + reservedEmbeddings[g]]
            /\ Goto(w, "release")
            /\ UNCHANGED <<workerVars, embeddingsReserved>>
       ELSE Finish(w) /\ UNCHANGED reservationVars
    /\ UNCHANGED <<rowVars, artifactVars, sourceVars, attempts, batchStatus, crashes>>

\* First transaction of release_embedding_reservation: the charge is undone.
\* With no reservation of this generation the lookup is rolled back, which
\* expires the group before _fail reads its generation again.
Unreserve(w) ==
    LET g == grp[w] IN
    /\ pc[w] = "unreserve"
    /\ IF Fenced(w) /\ reservedBatch[g] # None
       THEN /\ embeddingsReserved' = CreditBack(g)
            /\ ClearReservation(g)
            /\ Goto(w, "unclaim")
            /\ UNCHANGED <<gen, consumed>>
       ELSE /\ gen' = [gen EXCEPT ![w] = Unloaded]
            /\ Goto(w, "release")
            /\ UNCHANGED reservationVars
    /\ UNCHANGED <<rowVars, artifactVars, sourceVars, attempts, batchStatus,
                   stage, grp, base, charged, final, crashes>>

\* Its second one releases the claim and leaves the state alone; _fail then
\* releases again, with FAILED.
Unclaim(w) ==
    /\ pc[w] = "unclaim"
    /\ ReleaseRow(w, None)
    /\ Goto(w, "release")
    /\ UNCHANGED <<reservationVars, artifactVars, sourceVars, attempts, batchStatus,
                   workerVars, crashes>>

Release(w) ==
    /\ pc[w] = "release"
    /\ ReleaseRow(w, final[w])
    /\ Finish(w)
    /\ UNCHANGED <<reservationVars, artifactVars, sourceVars, attempts, batchStatus,
                   crashes>>

-----------------------------------------------------------------------------
(* The environment                                                         *)

\* claimed_at falls behind the lease.  A live holder is overtaken only in
\* one of the steps of scenario.stalls.
LeaseExpires(g) ==
    /\ claimedBy[g] # None
    /\ g \notin expired
    /\ grp[claimedBy[g]] = g => pc[claimedBy[g]] \in scenario.stalls
    /\ expired' = expired \cup {g}
    /\ UNCHANGED <<pipelineState, claimedBy, claimGeneration, reservationVars,
                   artifactVars, sourceVars, attempts, batchStatus, pc, workerVars,
                   crashes>>

\* The process dies between two transactions.
Crash(w) ==
    /\ pc[w] # "idle"
    /\ crashes < scenario.deaths
    /\ crashes' = crashes + 1
    /\ Finish(w)
    /\ UNCHANGED <<rowVars, reservationVars, artifactVars, sourceVars, attempts,
                   batchStatus>>

\* The resolver of the first occurrence writes the bytes it has read.
WriteContent(g) ==
    /\ g \notin content
    /\ content' = content \cup {g}
    /\ UNCHANGED <<rowVars, reservationVars, artifactVars, owners, attempts,
                   batchStatus, pc, workerVars, crashes>>

\* assign_content_identity: an occurrence of batch b now resolves to g.
AssignIdentity(b, g) ==
    /\ g \in content
    /\ b \notin owners[g]
    /\ owners' = [owners EXCEPT ![g] = @ \cup {b}]
    /\ UNCHANGED <<rowVars, reservationVars, artifactVars, content, attempts,
                   batchStatus, pc, workerVars, crashes>>

\* Any transition of BatchControl.
ControlBatch(b, s) ==
    /\ "control" \in scenario.faults
    /\ \E g \in Groups : <<b, g>> \in scenario.occurrences
    /\ LegalTransition(batchStatus[b], s)
    /\ batchStatus' = [batchStatus EXCEPT ![b] = s]
    /\ UNCHANGED <<rowVars, reservationVars, artifactVars, sourceVars, attempts, pc,
                   workerVars, crashes>>

-----------------------------------------------------------------------------
WorkerStep(w) ==
    \/ ReadClaim(w)
    \/ Normalize(w) \/ FindDocument(w) \/ InsertDocument(w)
    \/ ChunkLookup(w) \/ ExtractForChunks(w) \/ InsertChunks(w)
    \/ EmbedLookup(w) \/ Reserve(w) \/ ReserveDenied(w)
    \/ Embed(w) \/ WriteVectors(w) \/ WriteVectorsFails(w)
    \/ RecordSuccess(w) \/ RecordFailure(w)
    \/ Consume(w) \/ Unreserve(w) \/ Unclaim(w) \/ Release(w)

Next ==
    /\ \/ \E w \in Workers : WorkerStep(w) \/ Crash(w)
       \/ \E w \in Workers, s \in Stages : Claim(w, s)
       \/ \E g \in Groups : LeaseExpires(g) \/ WriteContent(g)
       \/ \E o \in scenario.occurrences : AssignIdentity(o[1], o[2])
       \/ \E b \in Batches, s \in BatchStatus : ControlBatch(b, s)
    /\ UNCHANGED scenario

Spec == Init /\ [][Next]_vars

\* A live worker keeps executing, a lease that nobody renews runs out, and
\* run_once visits every stage's queue again and again.
Fairness ==
    /\ \A w \in Workers : WF_vars(WorkerStep(w) /\ UNCHANGED scenario)
    /\ \A g \in Groups : WF_vars(LeaseExpires(g) /\ UNCHANGED scenario)
    /\ \A s \in Stages : SF_vars(\E w \in Workers : Claim(w, s) /\ UNCHANGED scenario)

FairSpec == Spec /\ Fairness
-----------------------------------------------------------------------------
(* Properties                                                              *)

\* The embeddings that groups hold reservations of batch b for.
Held(b) == SumFunctionOnSet(reservedEmbeddings, {g \in Groups : reservedBatch[g] = b})

\* The embeddings charged to a batch are those whose reservation was
\* consumed plus those some group still holds a reservation for: every
\* denial, failure, crash and reclaim gives back exactly what was taken
\* (reserve, consume, release_embedding_reservation and the recovery inside
\* claim_content_identity_group).  With late normalizers the code does not keep
\* this: the claim one of them clears may be that of a worker that has not read
\* its generation yet, which then shares the next holder's, and both reserve.
ChargesAccounted ==
    \A b \in Batches : embeddingsReserved[b] = consumed[b] + Held(b)

\* The hypothesis of LedgerBalanced: no live worker is overtaken before it has
\* read the generation it was granted, or before its document is inserted.
NoLateNormalizer ==
    scenario.stalls \cap {"claimed", "normalize", "findDocument", "insertDocument"} = {}

\* Charges are accounted for where no normalizer is late, whoever else is.
LedgerBalanced == NoLateNormalizer => ChargesAccounted

\* No batch is ever charged beyond max_embeddings, whatever the workers that
\* reserve at the same time do (the conditional UPDATE of reserve_embeddings).
EnvelopeRespected == \A b \in Batches : embeddingsReserved[b] <= MaxEmbeddings[b]

\* What state s of row g promises about the rest of the database.
HasArtifacts(g, s) ==
    /\ s \in {"NORMALIZED", "CHUNKED", "EMBEDDED", "INGESTED"} => g \in documents
    /\ s \in {"CHUNKED", "EMBEDDED", "INGESTED"} => (g \in chunked <=> NChunks[g] > 0)
    /\ s = "INGESTED" => embedded[g] = NChunks[g]

HasAttempts(g, s) ==
    /\ s \in {"NORMALIZED", "CHUNKED", "EMBEDDED", "INGESTED"}
          => <<g, "NORMALIZING", "SUCCEEDED">> \in attempts
    /\ s \in {"CHUNKED", "EMBEDDED", "INGESTED"} => <<g, "CHUNKING", "SUCCEEDED">> \in attempts
    /\ s \in {"EMBEDDED", "INGESTED"} => <<g, "EMBEDDING", "SUCCEEDED">> \in attempts
    /\ s = "FAILED" => \E st \in Stages : <<g, st, "FAILED">> \in attempts

\* A row's state never claims an artifact that is not there: a document from
\* NORMALIZED on, the chunk rows from CHUNKED on, every vector at INGESTED,
\* also when late workers of earlier generations still act.
ArtifactsBehindState == \A g \in Groups : HasArtifacts(g, pipelineState[g])

\* The audit trail is never behind the row: a state is only released after
\* the attempt that earned it was recorded (record_pipeline_attempt commits
\* before release_content_identity_group_claim in every service).
AttemptsBehindState == \A g \in Groups : HasAttempts(g, pipelineState[g])

\* The hypothesis of FencingProtects: no worker loads the generation of its
\* successor.  Either nobody is overtaken, or nobody is before its generation
\* is read, its document inserted and its chunks inserted, and the embedding
\* server answers in the end and its vectors can be stored.
NoLateReload ==
    \/ scenario.stalls = {}
    \/ /\ scenario.stalls \cap {"claimed", "normalize", "findDocument", "insertDocument",
                               "chunkLookup", "chunkExtract", "chunkInsert"} = {}
       /\ scenario.faults \cap {"embed", "vectorWrite"} = {}

\* No two workers hold the same generation of a row.
OneHolderPerGeneration ==
    \A v, w \in Workers :
        v # w /\ grp[v] = grp[w] /\ gen[v] = gen[w] => gen[w] = Unloaded

\* While a worker of the row's current generation embeds under a reservation,
\* the row carries that reservation.
ReservationHeld ==
    \A w \in Workers :
        /\ pc[w] \in {"embed", "writeVectors"}
        /\ charged[w] # None
        /\ gen[w] = claimGeneration[grp[w]]
        => /\ reservedBatch[grp[w]] = charged[w]
           /\ reservedEmbeddings[grp[w]] = NChunks[grp[w]] - base[w]

\* A group that no claim query will ever return holds no reservation.
NoStrandedReservation ==
    \A g \in Groups : pipelineState[g] \in TerminalStates => reservedBatch[g] = None

\* INGESTED and FAILED are kept in this step.
TerminalKept ==
    \A g \in Groups : pipelineState[g] \in TerminalStates
                         => pipelineState'[g] = pipelineState[g]

\* A claim whose lease is running is only given up by a step of its holder.
ClaimsKept ==
    \A g \in Groups, w \in Workers :
        claimedBy[g] = w /\ g \notin expired /\ claimedBy'[g] # w => pc'[w] # pc[w]

\* What the generation in every release and reservation is for
\* (worker_claim_service.py's docstrings).  Under the hypothesis a generation
\* names one attempt; no worker of an older one takes the row, its reservation
\* or its claim from the holder or changes a terminal state, which batch
\* completion counts on; and no reservation is stranded where the recovery
\* inside the claim query cannot reach it.
FencingProtects ==
    /\ [](NoLateReload => OneHolderPerGeneration /\ ReservationHeld /\ NoStrandedReservation)
    /\ [][NoLateReload => TerminalKept /\ ClaimsKept]_vars

\* Every row ends INGESTED or FAILED, through worker deaths and expired leases,
\* as long as no reservation is refused.
EveryGroupSettles == \A g \in Groups : <>[](pipelineState[g] \in TerminalStates)
=============================================================================
