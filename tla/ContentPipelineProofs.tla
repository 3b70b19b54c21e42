------------------------ MODULE ContentPipelineProofs ------------------------
(***************************************************************************)
(* Theorems about ContentPipeline, for every set of groups, workers and    *)
(* batches, every stall pattern and every fault.                           *)
(***************************************************************************)
EXTENDS ContentPipeline, SumTheorems

\* What a step of an attempt knows about its own locals.
LocalsOK ==
    \A w \in Workers :
        /\ pc[w] \in {"reserve", "embed", "writeVectors"} => base[w] <= NChunks[grp[w]]
        /\ pc[w] = "reserve" => charged[w] \in Batches

TypeInv == TypeOK /\ LocalsOK

\* The initial rows, artifacts and workers are well typed.
LEMMA TypeInit == Init => TypeInv
<1>. SUFFICES ASSUME Init PROVE TypeInv
  OBVIOUS
<1>. USE NoneAssumption, SizesAssumption DEF Init
<1>. DEFINE start == scenario.start
<1>0. scenario \in Scenarios /\ start \in [Groups -> StartStates]
  BY ScopeAssumption
<1>. HIDE DEF start
<1>1. RowTypeOK
  BY <1>0 DEF RowTypeOK, States, StartStates, start
<1>2. ReservationTypeOK
  BY DEF ReservationTypeOK
<1>3. ArtifactTypeOK
  BY DEF ArtifactTypeOK, Stages, Outcomes, BatchStatus
<1>4. WorkerTypeOK /\ LocalsOK
  BY DEF WorkerTypeOK, LocalsOK, Steps, Stages, Unloaded
<1>. QED
  BY <1>0, <1>1, <1>2, <1>3, <1>4 DEF TypeInv, TypeOK

\* The claim columns: only a claim, a release and the clock touch them.
LEMMA RowTypes == TypeInv /\ [Next]_vars => RowTypeOK'
<1>. SUFFICES ASSUME TypeInv, [Next]_vars PROVE RowTypeOK'
  OBVIOUS
<1>. USE NoneAssumption
<1>. USE DEF TypeInv, TypeOK, RowTypeOK, WorkerTypeOK, rowVars, reservationVars,
    artifactVars, sourceVars, workerVars
<1>1. ASSUME NEW w \in Workers, NEW s \in Stages, Claim(w, s) PROVE RowTypeOK'
  BY <1>1 DEF Claim, NextGeneration
<1>2. ASSUME NEW w \in Workers, Unclaim(w) PROVE RowTypeOK'
  BY <1>2 DEF Unclaim, ReleaseRow
<1>3. ASSUME NEW w \in Workers, Release(w) PROVE RowTypeOK'
  BY <1>3 DEF Release, ReleaseRow, Finish
<1>4. ASSUME NEW g \in Groups, LeaseExpires(g) PROVE RowTypeOK'
  BY <1>4 DEF LeaseExpires
<1>5. CASE UNCHANGED rowVars
  BY <1>5
<1>6. ASSUME NEW w \in Workers,
         ReadClaim(w) \/ Normalize(w) \/ FindDocument(w) \/ InsertDocument(w) \/
             ChunkLookup(w) \/ ExtractForChunks(w) \/ InsertChunks(w) \/ EmbedLookup(w)
             \/ Reserve(w) \/ ReserveDenied(w) \/ Embed(w) \/ WriteVectors(w) \/
             WriteVectorsFails(w) \/ RecordSuccess(w) \/ RecordFailure(w) \/ Consume(w)
             \/ Unreserve(w) \/ Crash(w)
     PROVE UNCHANGED rowVars
  BY <1>6 DEF ReadClaim, Normalize, FindDocument, InsertDocument, ChunkLookup,
      ExtractForChunks, InsertChunks, EmbedLookup, Reserve, ReserveDenied, Embed,
      WriteVectors, WriteVectorsFails, RecordSuccess, RecordFailure, Consume, Unreserve,
      Crash, Finish
<1>7. ASSUME NEW g \in Groups, WriteContent(g) PROVE UNCHANGED rowVars
  BY <1>7 DEF WriteContent
<1>8. ASSUME NEW o \in scenario.occurrences, AssignIdentity(o[1], o[2]) PROVE UNCHANGED rowVars
  BY <1>8 DEF AssignIdentity
<1>9. ASSUME NEW b \in Batches, NEW s \in BatchStatus, ControlBatch(b, s) PROVE
    UNCHANGED rowVars
  BY <1>9 DEF ControlBatch, LegalTransition
<1>. QED
  BY <1>1, <1>2, <1>3, <1>4, <1>5, <1>6, <1>7, <1>8, <1>9 DEF Next, WorkerStep, vars

\* The reservation columns and the batch counters.
LEMMA ReservationTypes == TypeInv /\ [Next]_vars => ReservationTypeOK'
<1>. SUFFICES ASSUME TypeInv, [Next]_vars PROVE ReservationTypeOK'
  OBVIOUS
<1>. USE NoneAssumption, SizesAssumption
<1>. USE DEF TypeInv, TypeOK, ReservationTypeOK, WorkerTypeOK, LocalsOK, rowVars,
    reservationVars, artifactVars, sourceVars, workerVars
<1>1. ASSUME NEW w \in Workers, NEW s \in Stages, Claim(w, s) PROVE ReservationTypeOK'
  BY <1>1 DEF Claim, CreditBack, ClearReservation
<1>2. ASSUME NEW w \in Workers, Reserve(w) PROVE ReservationTypeOK'
  BY <1>2 DEF Reserve
<1>3. ASSUME NEW w \in Workers, Consume(w) PROVE ReservationTypeOK'
  BY <1>3 DEF Consume, ClearReservation, Finish
<1>4. ASSUME NEW w \in Workers, Unreserve(w) PROVE ReservationTypeOK'
  BY <1>4 DEF Unreserve, ClearReservation, CreditBack
<1>5. CASE UNCHANGED reservationVars
  BY <1>5
<1>6. ASSUME NEW w \in Workers,
         ReadClaim(w) \/ Normalize(w) \/ FindDocument(w) \/ InsertDocument(w) \/
             ChunkLookup(w) \/ ExtractForChunks(w) \/ InsertChunks(w) \/ EmbedLookup(w)
             \/ ReserveDenied(w) \/ Embed(w) \/ WriteVectors(w) \/ WriteVectorsFails(w)
             \/ RecordSuccess(w) \/ RecordFailure(w) \/ Unclaim(w) \/ Release(w) \/
             Crash(w)
     PROVE UNCHANGED reservationVars
  BY <1>6 DEF ReadClaim, Normalize, FindDocument, InsertDocument, ChunkLookup,
      ExtractForChunks, InsertChunks, EmbedLookup, ReserveDenied, Embed, WriteVectors,
      WriteVectorsFails, RecordSuccess, RecordFailure, Unclaim, Release, Crash, Finish
<1>7. ASSUME NEW g \in Groups, LeaseExpires(g) PROVE UNCHANGED reservationVars
  BY <1>7 DEF LeaseExpires
<1>8. ASSUME NEW g \in Groups, WriteContent(g) PROVE UNCHANGED reservationVars
  BY <1>8 DEF WriteContent
<1>9. ASSUME NEW o \in scenario.occurrences, AssignIdentity(o[1], o[2]) PROVE UNCHANGED
    reservationVars
  BY <1>9 DEF AssignIdentity
<1>10. ASSUME NEW b \in Batches, NEW s \in BatchStatus, ControlBatch(b, s) PROVE
    UNCHANGED reservationVars
  BY <1>10 DEF ControlBatch, LegalTransition
<1>. QED
  BY <1>1, <1>2, <1>3, <1>4, <1>5, <1>6, <1>7, <1>8, <1>9, <1>10 DEF Next, WorkerStep,
      vars

\* The files, documents, chunks, attempts, owners and batch statuses.
LEMMA ArtifactTypes == TypeInv /\ [Next]_vars => ArtifactTypeOK'
<1>. SUFFICES ASSUME TypeInv, [Next]_vars PROVE ArtifactTypeOK'
  OBVIOUS
<1>. USE SizesAssumption, ScopeAssumption
<1>. USE DEF TypeInv, TypeOK, ArtifactTypeOK, WorkerTypeOK, LocalsOK, Outcomes, rowVars,
    reservationVars, artifactVars, sourceVars, workerVars
<1>1. ASSUME NEW w \in Workers, InsertDocument(w) PROVE ArtifactTypeOK'
  BY <1>1 DEF InsertDocument
<1>2. ASSUME NEW w \in Workers, InsertChunks(w) PROVE ArtifactTypeOK'
  BY <1>2 DEF InsertChunks
<1>3. ASSUME NEW w \in Workers, WriteVectors(w) PROVE ArtifactTypeOK'
  BY <1>3 DEF WriteVectors, ReplySizes
<1>4. ASSUME NEW w \in Workers, RecordSuccess(w) PROVE ArtifactTypeOK'
  BY <1>4 DEF RecordSuccess, Recorded
<1>5. ASSUME NEW w \in Workers, RecordFailure(w) PROVE ArtifactTypeOK'
  BY <1>5 DEF RecordFailure, Recorded
<1>6. ASSUME NEW g \in Groups, WriteContent(g) PROVE ArtifactTypeOK'
  BY <1>6 DEF WriteContent
<1>7. ASSUME NEW o \in scenario.occurrences, AssignIdentity(o[1], o[2]) PROVE ArtifactTypeOK'
  BY <1>7 DEF AssignIdentity
<1>8. ASSUME NEW b \in Batches, NEW s \in BatchStatus, ControlBatch(b, s) PROVE
    ArtifactTypeOK'
  BY <1>8 DEF ControlBatch, LegalTransition
<1>9. CASE UNCHANGED <<artifactVars, sourceVars, attempts, batchStatus>>
  BY <1>9
<1>10. ASSUME NEW w \in Workers,
         ReadClaim(w) \/ Normalize(w) \/ FindDocument(w) \/ ChunkLookup(w) \/
             ExtractForChunks(w) \/ EmbedLookup(w) \/ Reserve(w) \/ ReserveDenied(w) \/
             Embed(w) \/ WriteVectorsFails(w) \/ Consume(w) \/ Unreserve(w) \/
             Unclaim(w) \/ Release(w) \/ Crash(w)
     PROVE UNCHANGED <<artifactVars, sourceVars, attempts, batchStatus>>
  BY <1>10 DEF ReadClaim, Normalize, FindDocument, ChunkLookup, ExtractForChunks,
      EmbedLookup, Reserve, ReserveDenied, Embed, WriteVectorsFails, Consume, Unreserve,
      Unclaim, Release, Crash, Finish
<1>11. ASSUME NEW w \in Workers, NEW s \in Stages, Claim(w, s) PROVE UNCHANGED
    <<artifactVars, sourceVars, attempts, batchStatus>>
  BY <1>11 DEF Claim, CreditBack, ClearReservation, NextGeneration, Claimable
<1>12. ASSUME NEW g \in Groups, LeaseExpires(g) PROVE UNCHANGED <<artifactVars,
    sourceVars, attempts, batchStatus>>
  BY <1>12, SMTT(30) DEF LeaseExpires
<1>. QED
  BY <1>1, <1>2, <1>3, <1>4, <1>5, <1>6, <1>7, <1>8, <1>9, <1>10, <1>11, <1>12 DEF Next,
      WorkerStep, vars

\* The workers' locals.
LEMMA WorkerTypes == TypeInv /\ [Next]_vars => WorkerTypeOK' /\ LocalsOK'
<1>. SUFFICES ASSUME TypeInv, [Next]_vars PROVE WorkerTypeOK' /\ LocalsOK'
  OBVIOUS
<1>. USE NoneAssumption, SizesAssumption
<1>. USE DEF TypeInv, TypeOK, WorkerTypeOK, LocalsOK, ArtifactTypeOK, Goto, Steps,
    Unloaded, rowVars, reservationVars, artifactVars, sourceVars, workerVars
<1>1. ASSUME NEW w \in Workers, NEW s \in Stages, Claim(w, s) PROVE WorkerTypeOK' /\
    LocalsOK'
  BY <1>1 DEF Claim
<1>2. ASSUME NEW w \in Workers, ReadClaim(w) PROVE WorkerTypeOK' /\ LocalsOK'
  BY <1>2 DEF ReadClaim, FirstStep, RowTypeOK, Stages
<1>3. ASSUME NEW w \in Workers, Normalize(w) PROVE WorkerTypeOK' /\ LocalsOK'
  BY <1>3 DEF Normalize
<1>4. ASSUME NEW w \in Workers, FindDocument(w) PROVE WorkerTypeOK' /\ LocalsOK'
  BY <1>4 DEF FindDocument
<1>5. ASSUME NEW w \in Workers, InsertDocument(w) PROVE WorkerTypeOK' /\ LocalsOK'
  BY <1>5 DEF InsertDocument
<1>6. ASSUME NEW w \in Workers, ChunkLookup(w) PROVE WorkerTypeOK' /\ LocalsOK'
  BY <1>6 DEF ChunkLookup
<1>7. ASSUME NEW w \in Workers, ExtractForChunks(w) PROVE WorkerTypeOK' /\ LocalsOK'
  BY <1>7 DEF ExtractForChunks
<1>8. ASSUME NEW w \in Workers, InsertChunks(w) PROVE WorkerTypeOK' /\ LocalsOK'
  BY <1>8 DEF InsertChunks
<1>9. ASSUME NEW w \in Workers, EmbedLookup(w) PROVE WorkerTypeOK' /\ LocalsOK'
  BY <1>9 DEF EmbedLookup, RunningOwners, Unembedded
<1>10. ASSUME NEW w \in Workers, Reserve(w) PROVE WorkerTypeOK' /\ LocalsOK'
  BY <1>10 DEF Reserve
<1>11. ASSUME NEW w \in Workers, ReserveDenied(w) PROVE WorkerTypeOK' /\ LocalsOK'
  BY <1>11 DEF ReserveDenied
<1>12. ASSUME NEW w \in Workers, Embed(w) PROVE WorkerTypeOK' /\ LocalsOK'
  BY <1>12 DEF Embed
<1>13. ASSUME NEW w \in Workers, WriteVectors(w) PROVE WorkerTypeOK' /\ LocalsOK'
  BY <1>13 DEF WriteVectors
<1>14. ASSUME NEW w \in Workers, WriteVectorsFails(w) PROVE WorkerTypeOK' /\ LocalsOK'
  BY <1>14, SMTT(30) DEF WriteVectorsFails, Finish
<1>15. ASSUME NEW w \in Workers, RecordSuccess(w) PROVE WorkerTypeOK' /\ LocalsOK'
  BY <1>15 DEF RecordSuccess, FinalState, States, Stages
<1>16. ASSUME NEW w \in Workers, RecordFailure(w) PROVE WorkerTypeOK' /\ LocalsOK'
  BY <1>16 DEF RecordFailure, AfterFailure, MyGeneration, RowTypeOK, States
<1>17. ASSUME NEW w \in Workers, Consume(w) PROVE WorkerTypeOK' /\ LocalsOK'
  <2>. DEFINE g == grp[w]
  <2>1. CASE Goto(w, "release") /\ UNCHANGED workerVars
    BY <1>17, <2>1 DEF Consume
  <2>2. CASE Finish(w)
    BY <1>17, <2>2 DEF Consume, Finish
  <2>. QED
    BY <1>17, <2>1, <2>2 DEF Consume
<1>18. ASSUME NEW w \in Workers, Unreserve(w) PROVE WorkerTypeOK' /\ LocalsOK'
  BY <1>18 DEF Unreserve
<1>19. ASSUME NEW w \in Workers, Unclaim(w) PROVE WorkerTypeOK' /\ LocalsOK'
  <2>1. WorkerTypeOK'
    BY <1>19 DEF Unclaim
  <2>2. LocalsOK'
    BY <1>19 DEF Unclaim
  <2>. QED
    BY <2>1, <2>2
<1>20. ASSUME NEW w \in Workers, Release(w) PROVE WorkerTypeOK' /\ LocalsOK'
  BY <1>20 DEF Release, Finish
<1>21. ASSUME NEW w \in Workers, Crash(w) PROVE WorkerTypeOK' /\ LocalsOK'
  BY <1>21 DEF Crash, Finish
<1>22. ASSUME NEW g \in Groups, LeaseExpires(g) PROVE WorkerTypeOK' /\ LocalsOK'
  BY <1>22 DEF LeaseExpires
<1>23. ASSUME NEW g \in Groups, WriteContent(g) PROVE WorkerTypeOK' /\ LocalsOK'
  BY <1>23 DEF WriteContent
<1>24. ASSUME NEW o \in scenario.occurrences, AssignIdentity(o[1], o[2]) PROVE WorkerTypeOK' /\
    LocalsOK'
  BY <1>24 DEF AssignIdentity
<1>25. ASSUME NEW b \in Batches, NEW s \in BatchStatus, ControlBatch(b, s) PROVE
    WorkerTypeOK' /\ LocalsOK'
  BY <1>25 DEF ControlBatch, LegalTransition
<1>26. CASE UNCHANGED vars
  BY <1>26 DEF vars
<1>. QED
  BY <1>1, <1>2, <1>3, <1>4, <1>5, <1>6, <1>7, <1>8, <1>9, <1>10, <1>11, <1>12, <1>13,
      <1>14, <1>15, <1>16, <1>17, <1>18, <1>19, <1>20, <1>21, <1>22, <1>23, <1>24,
      <1>25, <1>26 DEF Next, WorkerStep, vars

\* Every step keeps the types: the four parts together.
LEMMA TypeStep == TypeInv /\ [Next]_vars => TypeInv'
<1>. SUFFICES ASSUME TypeInv, [Next]_vars PROVE TypeInv'
  OBVIOUS
<1>1. UNCHANGED scenario
  BY DEF Next, vars
<1>. QED
  BY <1>1, RowTypes, ReservationTypes, ArtifactTypes, WorkerTypes DEF TypeInv, TypeOK

\* Type correctness of the whole pipeline, whatever the constants.
THEOREM TypeCorrect == Spec => []TypeOK
<1>1. TypeInv => TypeOK
  BY DEF TypeInv
<1>. QED
  BY TypeInit, TypeStep, <1>1, PTL DEF Spec

\* A step that changes a batch counter lowers it, or found room for the rise.
LEMMA EnvelopeStep == TypeInv /\ EnvelopeRespected /\ [Next]_vars => EnvelopeRespected'
<1>. SUFFICES ASSUME TypeInv, EnvelopeRespected, [Next]_vars PROVE EnvelopeRespected'
  OBVIOUS
<1>. USE NoneAssumption, SizesAssumption
<1>. USE DEF TypeInv, TypeOK, ReservationTypeOK, WorkerTypeOK, LocalsOK,
    EnvelopeRespected, rowVars, reservationVars, artifactVars, sourceVars, workerVars
<1>1. ASSUME NEW w \in Workers, NEW s \in Stages, Claim(w, s) PROVE EnvelopeRespected'
  BY <1>1 DEF Claim, CreditBack
<1>2. ASSUME NEW w \in Workers, Reserve(w) PROVE EnvelopeRespected'
  BY <1>2 DEF Reserve, Admitted
<1>3. ASSUME NEW w \in Workers, Unreserve(w) PROVE EnvelopeRespected'
  BY <1>3 DEF Unreserve, CreditBack
<1>4. CASE UNCHANGED embeddingsReserved
  BY <1>4
<1>5. ASSUME NEW w \in Workers,
         ReadClaim(w) \/ Normalize(w) \/ FindDocument(w) \/ InsertDocument(w) \/
             ChunkLookup(w) \/ ExtractForChunks(w) \/ InsertChunks(w) \/ EmbedLookup(w)
             \/ ReserveDenied(w) \/ Embed(w) \/ WriteVectors(w) \/ WriteVectorsFails(w)
             \/ RecordSuccess(w) \/ RecordFailure(w) \/ Consume(w) \/ Unclaim(w) \/
             Release(w) \/ Crash(w)
     PROVE UNCHANGED embeddingsReserved
  BY <1>5 DEF ReadClaim, Normalize, FindDocument, InsertDocument, ChunkLookup,
      ExtractForChunks, InsertChunks, EmbedLookup, ReserveDenied, Embed, WriteVectors,
      WriteVectorsFails, RecordSuccess, RecordFailure, Consume, Unclaim, Release, Crash,
      Finish
<1>6. ASSUME NEW g \in Groups, LeaseExpires(g) PROVE UNCHANGED embeddingsReserved
  BY <1>6 DEF LeaseExpires
<1>7. ASSUME NEW g \in Groups, WriteContent(g) PROVE UNCHANGED embeddingsReserved
  BY <1>7 DEF WriteContent
<1>8. ASSUME NEW o \in scenario.occurrences, AssignIdentity(o[1], o[2]) PROVE UNCHANGED
    embeddingsReserved
  BY <1>8 DEF AssignIdentity
<1>9. ASSUME NEW b \in Batches, NEW s \in BatchStatus, ControlBatch(b, s) PROVE
    UNCHANGED embeddingsReserved
  BY <1>9 DEF ControlBatch, LegalTransition
<1>. QED
  BY <1>1, <1>2, <1>3, <1>4, <1>5, <1>6, <1>7, <1>8, <1>9 DEF Next, WorkerStep, vars

\* No interleaving of reservations, releases, reclaims and crashes charges a
\* batch beyond its max_embeddings.
THEOREM EnvelopeHolds == Spec => []EnvelopeRespected
<1>1. Init => EnvelopeRespected
  BY SizesAssumption DEF Init, EnvelopeRespected
<1>. QED
  BY TypeInit, TypeStep, EnvelopeStep, <1>1, PTL DEF Spec

-----------------------------------------------------------------------------
(* The evidence behind a state.  ArtifactsBehindState and                  *)
(* AttemptsBehindState are not inductive: a release writes the state its   *)
(* worker settled on several steps earlier, for a row that others may have *)
(* moved since.  The strengthening says what a worker has already          *)
(* established for the state it is about to write.                         *)

Backed(g, s) == HasArtifacts(g, s) /\ HasAttempts(g, s)

StatesBacked == \A g \in Groups : Backed(g, pipelineState[g])

\* The state that the work done by a successful attempt of w amounts to.
Earned(w) == IF stage[w] = "NORMALIZING" THEN "NORMALIZED" ELSE "CHUNKED"

WorkerBacked(w) ==
    /\ pc[w] = "idle" => final[w] = None
    /\ pc[w] # "idle" /\ stage[w] = "CHUNKING" => Backed(grp[w], "NORMALIZED")
    /\ pc[w] # "idle" /\ stage[w] = "EMBEDDING" => Backed(grp[w], "CHUNKED")
    /\ pc[w] = "succeed" => HasArtifacts(grp[w], Earned(w))
    /\ pc[w] \in {"normalize", "findDocument", "insertDocument"}
          => stage[w] = "NORMALIZING"
    /\ pc[w] \in {"chunkLookup", "chunkExtract", "chunkInsert"} => stage[w] = "CHUNKING"
    /\ pc[w] \in {"embedLookup", "embed", "reserve", "writeVectors"}
          => stage[w] = "EMBEDDING"
    /\ final[w] # None => Backed(grp[w], final[w])

WorkersBacked == \A w \in Workers : WorkerBacked(w)

ChunksSound == \A g \in chunked : NChunks[g] > 0

EvidenceInv == TypeInv /\ ChunksSound /\ WorkersBacked /\ StatesBacked

\* Documents, chunks, vectors and attempts are only ever added.
ArtifactsGrow ==
    /\ documents \subseteq documents'
    /\ chunked \subseteq chunked'
    /\ attempts \subseteq attempts'
    /\ \A g \in Groups : embedded[g] <= embedded'[g]

\* A chunk row belongs to a text that has chunks.
LEMMA ChunksStay == TypeInv /\ ChunksSound /\ [Next]_vars => ChunksSound'
<1>. SUFFICES ASSUME TypeInv /\ ChunksSound, [Next]_vars PROVE ChunksSound'
  OBVIOUS
<1>. USE SizesAssumption
<1>. USE DEF TypeInv, TypeOK, ArtifactTypeOK, WorkerTypeOK, ChunksSound, rowVars,
    reservationVars, artifactVars, sourceVars, workerVars
<1>1. ASSUME NEW w \in Workers, InsertChunks(w) PROVE ChunksSound'
  BY <1>1 DEF InsertChunks
<1>2. CASE UNCHANGED chunked
  BY <1>2
<1>3. ASSUME NEW w \in Workers,
         ReadClaim(w) \/ Normalize(w) \/ FindDocument(w) \/ InsertDocument(w) \/
             ChunkLookup(w) \/ ExtractForChunks(w) \/ EmbedLookup(w) \/ Reserve(w) \/
             ReserveDenied(w) \/ Embed(w) \/ WriteVectors(w) \/ WriteVectorsFails(w) \/
             RecordSuccess(w) \/ RecordFailure(w) \/ Consume(w) \/ Unreserve(w) \/
             Unclaim(w) \/ Release(w) \/ Crash(w)
     PROVE UNCHANGED chunked
  BY <1>3 DEF ReadClaim, Normalize, FindDocument, InsertDocument, ChunkLookup,
      ExtractForChunks, EmbedLookup, Reserve, ReserveDenied, Embed, WriteVectors,
      WriteVectorsFails, RecordSuccess, RecordFailure, Consume, Unreserve, Unclaim,
      Release, Crash, Finish
<1>4. ASSUME NEW w \in Workers, NEW s \in Stages, Claim(w, s) PROVE UNCHANGED chunked
  BY <1>4 DEF Claim, CreditBack, ClearReservation, NextGeneration, Claimable
<1>5. ASSUME NEW g \in Groups, LeaseExpires(g) PROVE UNCHANGED chunked
  BY <1>5 DEF LeaseExpires
<1>6. ASSUME NEW g \in Groups, WriteContent(g) PROVE UNCHANGED chunked
  BY <1>6 DEF WriteContent
<1>7. ASSUME NEW o \in scenario.occurrences, AssignIdentity(o[1], o[2]) PROVE UNCHANGED chunked
  BY <1>7 DEF AssignIdentity
<1>8. ASSUME NEW b \in Batches, NEW s \in BatchStatus, ControlBatch(b, s) PROVE
    UNCHANGED chunked
  BY <1>8 DEF ControlBatch, LegalTransition
<1>. QED
  BY <1>1, <1>2, <1>3, <1>4, <1>5, <1>6, <1>7, <1>8 DEF Next, WorkerStep, vars

\* No step of any worker removes a document, a chunk, a vector or an attempt.
LEMMA ArtifactsAccumulate == TypeInv /\ [Next]_vars => ArtifactsGrow
<1>. SUFFICES ASSUME TypeInv, [Next]_vars PROVE ArtifactsGrow
  OBVIOUS
<1>. USE SizesAssumption
<1>. USE DEF TypeInv, TypeOK, ArtifactTypeOK, WorkerTypeOK, LocalsOK, ArtifactsGrow,
    rowVars, reservationVars, artifactVars, sourceVars, workerVars
<1>1. ASSUME NEW w \in Workers, InsertDocument(w) PROVE ArtifactsGrow
  BY <1>1 DEF InsertDocument
<1>2. ASSUME NEW w \in Workers, InsertChunks(w) PROVE ArtifactsGrow
  BY <1>2 DEF InsertChunks
<1>3. ASSUME NEW w \in Workers, WriteVectors(w) PROVE ArtifactsGrow
  BY <1>3 DEF WriteVectors, ReplySizes
<1>4. ASSUME NEW w \in Workers, RecordSuccess(w) PROVE ArtifactsGrow
  BY <1>4 DEF RecordSuccess, Recorded, FinalState
<1>5. ASSUME NEW w \in Workers, RecordFailure(w) PROVE ArtifactsGrow
  BY <1>5 DEF RecordFailure, Recorded, AfterFailure, MyGeneration
<1>6. CASE UNCHANGED <<artifactVars, attempts>>
  BY <1>6
<1>7. ASSUME NEW w \in Workers,
         ReadClaim(w) \/ Normalize(w) \/ FindDocument(w) \/ ChunkLookup(w) \/
             ExtractForChunks(w) \/ EmbedLookup(w) \/ Reserve(w) \/ ReserveDenied(w) \/
             Embed(w) \/ WriteVectorsFails(w) \/ Consume(w) \/ Unreserve(w) \/
             Unclaim(w) \/ Release(w) \/ Crash(w)
     PROVE UNCHANGED <<artifactVars, attempts>>
  BY <1>7 DEF ReadClaim, Normalize, FindDocument, ChunkLookup, ExtractForChunks,
      EmbedLookup, Reserve, ReserveDenied, Embed, WriteVectorsFails, Consume, Unreserve,
      Unclaim, Release, Crash, Finish
<1>8. ASSUME NEW w \in Workers, NEW s \in Stages, Claim(w, s) PROVE UNCHANGED
    <<artifactVars, attempts>>
  BY <1>8 DEF Claim, CreditBack, ClearReservation, NextGeneration, Claimable
<1>9. ASSUME NEW g \in Groups, LeaseExpires(g) PROVE UNCHANGED <<artifactVars,
    attempts>>
  BY <1>9 DEF LeaseExpires
<1>10. ASSUME NEW g \in Groups, WriteContent(g) PROVE UNCHANGED <<artifactVars,
    attempts>>
  BY <1>10 DEF WriteContent
<1>11. ASSUME NEW o \in scenario.occurrences, AssignIdentity(o[1], o[2]) PROVE UNCHANGED
    <<artifactVars, attempts>>
  BY <1>11 DEF AssignIdentity
<1>12. ASSUME NEW b \in Batches, NEW s \in BatchStatus, ControlBatch(b, s) PROVE
    UNCHANGED <<artifactVars, attempts>>
  BY <1>12 DEF ControlBatch, LegalTransition
<1>. QED
  BY <1>1, <1>2, <1>3, <1>4, <1>5, <1>6, <1>7, <1>8, <1>9, <1>10, <1>11, <1>12 DEF Next,
      WorkerStep, vars

\* What a state promises, once true, stays true.
LEMMA EvidenceStable ==
    ASSUME TypeInv, TypeInv', ChunksSound, ChunksSound', ArtifactsGrow,
           NEW g \in Groups, NEW s \in States
    PROVE  /\ HasArtifacts(g, s) => HasArtifacts(g, s)'
           /\ HasAttempts(g, s) => HasAttempts(g, s)'
           /\ Backed(g, s) => Backed(g, s)'
<1>. USE SizesAssumption DEF TypeInv, TypeOK, ArtifactTypeOK, ArtifactsGrow
<1>1. HasArtifacts(g, s) => HasArtifacts(g, s)'
  <2>1. embedded[g] = NChunks[g] => embedded'[g] = NChunks[g]
    OBVIOUS
  <2>2. (g \in chunked <=> NChunks[g] > 0) => (g \in chunked' <=> NChunks[g] > 0)
    BY DEF ChunksSound
  <2>. QED
    BY <2>1, <2>2 DEF HasArtifacts
<1>2. HasAttempts(g, s) => HasAttempts(g, s)'
  BY DEF HasAttempts
<1>. QED
  BY <1>1, <1>2 DEF Backed

\* A step of one worker leaves the others' locals alone.
OthersKeep(w) ==
    \A v \in Workers \ {w} :
        /\ pc'[v] = pc[v] /\ stage'[v] = stage[v]
        /\ grp'[v] = grp[v] /\ final'[v] = final[v]
        /\ gen'[v] = gen[v] /\ base'[v] = base[v] /\ charged'[v] = charged[v]

\* What a worker has established is not lost by the steps of others.
LEMMA WorkerBackedKept ==
    ASSUME TypeInv, TypeInv', ChunksSound, ChunksSound', ArtifactsGrow,
           NEW v \in Workers, WorkerBacked(v),
           pc'[v] = pc[v], stage'[v] = stage[v], grp'[v] = grp[v], final'[v] = final[v]
    PROVE  WorkerBacked(v)'
<1>1. CASE pc[v] = "idle"
  BY <1>1 DEF WorkerBacked
<1>2. CASE pc[v] # "idle"
  <2>1. grp[v] \in Groups
    BY <1>2 DEF TypeInv, TypeOK, WorkerTypeOK
  <2>2. \A s \in States : /\ HasArtifacts(grp[v], s) => HasArtifacts(grp[v], s)'
                          /\ Backed(grp[v], s) => Backed(grp[v], s)'
    BY <2>1, EvidenceStable
  <2>3. grp[v] = grp'[v] /\ {"NORMALIZED", "CHUNKED"} \subseteq States
    BY DEF States
  <2>4. final[v] # None => final[v] \in States
    BY DEF TypeInv, TypeOK, WorkerTypeOK
  <2>. QED
    BY <2>2, <2>3, <2>4 DEF WorkerBacked, Earned
<1>. QED
  BY <1>1, <1>2

\* Every step of a worker is that worker's own.
LEMMA StepsAreLocal ==
    ASSUME TypeInv, NEW w \in Workers, WorkerStep(w) \/ Crash(w)
    PROVE  OthersKeep(w)
  BY SMTT(30)
     DEF WorkerStep, ReadClaim, Normalize, FindDocument, InsertDocument, ChunkLookup,
      ExtractForChunks, InsertChunks, EmbedLookup, Reserve, ReserveDenied, Embed,
      WriteVectors, WriteVectorsFails, Finish, RecordSuccess, RecordFailure, Consume,
      Unreserve, Unclaim, Release, Crash, TypeInv, TypeOK, WorkerTypeOK, Goto,
      OthersKeep, rowVars, reservationVars, artifactVars, sourceVars, workerVars

\* Each step hands on the evidence: an attempt comes to "succeed" only with the
\* artifacts of its stage in place, and settles on a state only with its attempt
\* recorded.
LEMMA OwnEvidence ==
    ASSUME EvidenceInv, TypeInv', ChunksSound', ArtifactsGrow,
           NEW w \in Workers, WorkerStep(w) \/ Crash(w)
    PROVE  WorkerBacked(w)'
<1>1. WorkerBacked(w) /\ pc[w] # "idle"
  BY DEF EvidenceInv, WorkersBacked, WorkerStep, ReadClaim, Normalize, FindDocument,
      InsertDocument, ChunkLookup, ExtractForChunks, InsertChunks, EmbedLookup, Reserve,
      ReserveDenied, Embed, WriteVectors, WriteVectorsFails, RecordSuccess,
      RecordFailure, Consume, Unreserve, Unclaim, Release, Crash
<1>2. PICK g \in Groups : g = grp[w]
  BY <1>1 DEF EvidenceInv, TypeInv, TypeOK, WorkerTypeOK
<1>3. \A s \in States : /\ HasArtifacts(g, s) => HasArtifacts(g, s)'
                        /\ HasAttempts(g, s) => HasAttempts(g, s)'
                        /\ Backed(g, s) => Backed(g, s)'
  BY EvidenceStable DEF EvidenceInv
<1>4. {"NORMALIZED", "CHUNKED"} \subseteq States /\ final[w] \in States \cup {None}
  BY DEF States, EvidenceInv, TypeInv, TypeOK, WorkerTypeOK
<1>5. CASE pc'[w] = "idle" /\ final'[w] = None
  BY <1>5 DEF WorkerBacked
<1>. USE DEF EvidenceInv, TypeInv, TypeOK, WorkerTypeOK, Goto, OthersKeep, rowVars,
    reservationVars, artifactVars, sourceVars, workerVars
<1>6. ASSUME stage'[w] = stage[w], grp'[w] = g, final'[w] = final[w], pc'[w] # "idle",
             pc'[w] = "succeed" => HasArtifacts(g, Earned(w))',
             pc'[w] \in {"normalize", "findDocument", "insertDocument"}
                => stage[w] = "NORMALIZING",
             pc'[w] \in {"chunkLookup", "chunkExtract", "chunkInsert"}
                => stage[w] = "CHUNKING",
             pc'[w] \in {"embedLookup", "reserve", "embed", "writeVectors"}
                => stage[w] = "EMBEDDING"
      PROVE  WorkerBacked(w)'
  BY <1>1, <1>2, <1>3, <1>4, <1>6 DEF WorkerBacked, Earned

<1>7. CASE ReadClaim(w)
  BY <1>1, <1>2, <1>3, <1>4, <1>5, <1>6, <1>7 DEF ReadClaim, FirstStep, Stages,
      WorkerBacked
<1>8. CASE Normalize(w)
  BY <1>1, <1>2, <1>3, <1>4, <1>5, <1>6, <1>8 DEF Normalize, WorkerBacked
<1>9. CASE FindDocument(w)
  BY <1>1, <1>2, <1>3, <1>4, <1>5, <1>6, <1>9 DEF FindDocument, HasArtifacts, Earned,
      WorkerBacked
<1>10. CASE InsertDocument(w)
  BY <1>1, <1>2, <1>3, <1>4, <1>5, <1>6, <1>10 DEF InsertDocument, HasArtifacts, Earned,
      WorkerBacked
<1>11. CASE ChunkLookup(w)
  BY <1>1, <1>2, <1>3, <1>4, <1>5, <1>6, <1>11 DEF ChunkLookup, HasArtifacts, Earned,
      ChunksSound, Backed, WorkerBacked
<1>12. CASE ExtractForChunks(w)
  BY <1>1, <1>2, <1>3, <1>4, <1>5, <1>6, <1>12 DEF ExtractForChunks, WorkerBacked
<1>13. CASE InsertChunks(w)
  BY <1>1, <1>2, <1>3, <1>4, <1>5, <1>6, <1>13 DEF InsertChunks, HasArtifacts, Earned,
      ChunksSound, Backed, WorkerBacked
<1>14. CASE EmbedLookup(w)
  BY <1>1, <1>2, <1>3, <1>4, <1>5, <1>6, <1>14 DEF EmbedLookup, Earned, Backed,
      WorkerBacked
<1>15. CASE Reserve(w)
  BY <1>1, <1>2, <1>3, <1>4, <1>5, <1>6, <1>15 DEF Reserve, WorkerBacked
<1>16. CASE ReserveDenied(w)
  BY <1>1, <1>2, <1>3, <1>4, <1>5, <1>6, <1>16 DEF ReserveDenied, WorkerBacked
<1>17. CASE Embed(w)
  BY <1>1, <1>2, <1>3, <1>4, <1>5, <1>6, <1>17 DEF Embed, WorkerBacked
<1>18. CASE WriteVectors(w)
  BY <1>1, <1>2, <1>3, <1>4, <1>5, <1>6, <1>18 DEF WriteVectors, Earned, Backed,
      WorkerBacked
<1>19. CASE WriteVectorsFails(w)
  BY <1>1, <1>2, <1>3, <1>4, <1>5, <1>6, <1>19 DEF WriteVectorsFails, Finish,
      WorkerBacked
<1>20. CASE RecordSuccess(w)
  <2>1. PICK f \in States : f = FinalState(w)
    BY DEF FinalState, States, Stages
  <2>2. /\ pc'[w] \in {"consume", "release"} /\ stage'[w] = stage[w] /\ grp'[w] = g
        /\ final'[w] = f
        /\ attempts' = attempts \cup {<<g, stage[w], "SUCCEEDED">>}
    BY <1>2, <1>20, <2>1 DEF RecordSuccess, Recorded
  <2>3. HasArtifacts(g, Earned(w)) /\ documents' = documents /\ chunked' = chunked /\
      embedded' = embedded
    BY <1>1, <1>2, <1>20 DEF RecordSuccess, WorkerBacked
  <2>4. stage[w] \in Stages /\ (stage[w] # "NORMALIZING" => Backed(g, "NORMALIZED"))
        /\ (stage[w] = "EMBEDDING" => Backed(g, "CHUNKED"))
    BY <1>1, <1>2 DEF WorkerBacked, Stages, Backed, HasArtifacts, HasAttempts
  <2>5. HasArtifacts(g, f)'
    <3>1. embedded[g] \in Nat /\ NChunks[g] \in Nat /\ embedded[g] <= NChunks[g]
      BY SizesAssumption DEF ArtifactTypeOK
    <3>2. Unembedded(g) = 0 /\ (g \in chunked <=> NChunks[g] > 0) => embedded[g] =
        NChunks[g]
      BY <3>1 DEF Unembedded
    <3>. QED
      BY <1>2, <2>1, <2>3, <2>4, <3>2 DEF FinalState, HasArtifacts, Earned, Stages
  <2>6. HasAttempts(g, f)'
    BY <1>2, <2>1, <2>2, <2>4 DEF FinalState, HasAttempts, Backed, Stages
  <2>. QED
    BY <1>1, <1>2, <1>3, <1>4, <2>2, <2>5, <2>6 DEF WorkerBacked, Backed
<1>21. CASE RecordFailure(w)
  BY <1>1, <1>2, <1>3, <1>4, <1>5, <1>6, <1>21 DEF RecordFailure, AfterFailure,
      Recorded, Backed, HasArtifacts, HasAttempts, WorkerBacked
<1>22. CASE Consume(w)
  BY <1>1, <1>2, <1>3, <1>4, <1>5, <1>6, <1>22 DEF Consume, Finish, WorkerBacked
<1>23. CASE Unreserve(w)
  BY <1>1, <1>2, <1>3, <1>4, <1>5, <1>6, <1>23 DEF Unreserve, WorkerBacked
<1>24. CASE Unclaim(w)
  BY <1>1, <1>2, <1>3, <1>4, <1>5, <1>6, <1>24 DEF Unclaim, WorkerBacked
<1>25. CASE Release(w)
  BY <1>1, <1>2, <1>3, <1>4, <1>5, <1>6, <1>25 DEF Release, Finish, WorkerBacked
<1>26. CASE Crash(w)
  BY <1>1, <1>2, <1>3, <1>4, <1>5, <1>6, <1>26 DEF Crash, Finish, WorkerBacked
<1>. QED
  BY <1>7, <1>8, <1>9, <1>10, <1>11, <1>12, <1>13, <1>14, <1>15, <1>16, <1>17, <1>18,
      <1>19, <1>20, <1>21, <1>22, <1>23, <1>24, <1>25, <1>26 DEF WorkerStep

\* A claim finds the evidence for the state it claims the row in.
LEMMA ClaimEvidence ==
    ASSUME EvidenceInv, TypeInv', ChunksSound', ArtifactsGrow,
           NEW w \in Workers, NEW s \in Stages, Claim(w, s)
    PROVE  WorkerBacked(w)' /\ OthersKeep(w)
<1>. USE DEF EvidenceInv, TypeInv, TypeOK, WorkerTypeOK, Goto, artifactVars
<1>1. PICK g \in Groups : Claimable(g, s) /\ grp' = [grp EXCEPT ![w] = g]
  BY DEF Claim
<1>2. pc'[w] = "claimed" /\ stage'[w] = s /\ grp'[w] = g /\ final'[w] = None
  BY <1>1 DEF Claim, WorkersBacked, WorkerBacked
<1>3. /\ s = "CHUNKING" => Backed(g, "NORMALIZED")
      /\ s = "EMBEDDING" => Backed(g, "CHUNKED")
  BY <1>1 DEF StatesBacked, Backed, HasArtifacts, HasAttempts, Claimable, EligibleStates
<1>4. /\ Backed(g, "NORMALIZED") => Backed(g, "NORMALIZED")'
      /\ Backed(g, "CHUNKED") => Backed(g, "CHUNKED")'
  BY EvidenceStable DEF States
<1>5. WorkerBacked(w)'
  BY <1>2, <1>3, <1>4 DEF WorkerBacked
<1>6. OthersKeep(w)
  BY <1>1 DEF Claim, OthersKeep
<1>. QED
  BY <1>5, <1>6

\* The workers' evidence survives every step, their own and the environment's.
LEMMA WorkersEvidence == EvidenceInv /\ [Next]_vars => WorkersBacked'
<1>. SUFFICES ASSUME EvidenceInv, [Next]_vars PROVE WorkersBacked'
  OBVIOUS
<1>1. TypeInv' /\ ChunksSound' /\ ArtifactsGrow
  BY TypeStep, ChunksStay, ArtifactsAccumulate DEF EvidenceInv
<1>2. ASSUME NEW w \in Workers, OthersKeep(w), WorkerBacked(w)' PROVE WorkersBacked'
  BY <1>1, <1>2, WorkerBackedKept DEF EvidenceInv, WorkersBacked, OthersKeep
<1>3. CASE UNCHANGED <<pc, workerVars>>
  BY <1>1, <1>3, WorkerBackedKept DEF EvidenceInv, WorkersBacked, workerVars
<1>4. ASSUME NEW w \in Workers, WorkerStep(w) \/ Crash(w) PROVE WorkersBacked'
  BY <1>1, <1>2, <1>4, StepsAreLocal, OwnEvidence DEF EvidenceInv
<1>5. ASSUME NEW w \in Workers, NEW s \in Stages, Claim(w, s) PROVE WorkersBacked'
  BY <1>1, <1>2, <1>5, ClaimEvidence
<1>6. ASSUME NEW g \in Groups, LeaseExpires(g) \/ WriteContent(g)
      PROVE UNCHANGED <<pc, workerVars>>
  BY <1>6 DEF LeaseExpires, WriteContent
<1>7. ASSUME NEW o \in scenario.occurrences, AssignIdentity(o[1], o[2])
      PROVE UNCHANGED <<pc, workerVars>>
  BY <1>7 DEF AssignIdentity
<1>8. ASSUME NEW b \in Batches, NEW s \in BatchStatus, ControlBatch(b, s)
      PROVE UNCHANGED <<pc, workerVars>>
  BY <1>8 DEF ControlBatch
<1>. QED
  BY <1>3, <1>4, <1>5, <1>6, <1>7, <1>8 DEF Next, vars

\* A step that leaves every pipeline_state alone, or is a release that writes one.
OnlyReleasesWrite ==
    \/ pipelineState' = pipelineState
    \/ \E w \in Workers : /\ pc[w] = "release" /\ final[w] # None
                          /\ pipelineState' = [pipelineState EXCEPT ![grp[w]] =
                              final[w]]

\* A row changes state only in the fenced release of a worker that settled on that
\* state.
LEMMA StateWritten == TypeInv /\ [Next]_vars => OnlyReleasesWrite
<1>. SUFFICES ASSUME TypeInv, [Next]_vars PROVE OnlyReleasesWrite
  OBVIOUS
<1>. USE NoneAssumption
<1>. USE DEF OnlyReleasesWrite, rowVars, reservationVars, artifactVars, sourceVars,
    workerVars
<1>1. ASSUME NEW w \in Workers, Release(w) PROVE OnlyReleasesWrite
  BY <1>1 DEF Release, ReleaseRow
<1>2. CASE UNCHANGED pipelineState
  BY <1>2
<1>3. ASSUME NEW w \in Workers,
         ReadClaim(w) \/ Normalize(w) \/ FindDocument(w) \/ InsertDocument(w) \/
             ChunkLookup(w) \/ ExtractForChunks(w) \/ InsertChunks(w) \/ EmbedLookup(w)
             \/ Reserve(w) \/ ReserveDenied(w) \/ Embed(w) \/ WriteVectors(w) \/
             WriteVectorsFails(w) \/ RecordSuccess(w) \/ RecordFailure(w) \/ Consume(w)
             \/ Unreserve(w) \/ Unclaim(w) \/ Crash(w)
     PROVE UNCHANGED pipelineState
  BY <1>3 DEF ReadClaim, Normalize, FindDocument, InsertDocument, ChunkLookup,
      ExtractForChunks, InsertChunks, EmbedLookup, Reserve, ReserveDenied, Embed,
      WriteVectors, WriteVectorsFails, RecordSuccess, RecordFailure, Consume, Unreserve,
      Unclaim, ReleaseRow, Crash, Finish
<1>4. ASSUME NEW w \in Workers, NEW s \in Stages, Claim(w, s) PROVE UNCHANGED
    pipelineState
  BY <1>4 DEF Claim, CreditBack, ClearReservation, NextGeneration, Claimable
<1>5. ASSUME NEW g \in Groups, LeaseExpires(g) PROVE UNCHANGED pipelineState
  BY <1>5 DEF LeaseExpires
<1>6. ASSUME NEW g \in Groups, WriteContent(g) PROVE UNCHANGED pipelineState
  BY <1>6 DEF WriteContent
<1>7. ASSUME NEW o \in scenario.occurrences, AssignIdentity(o[1], o[2]) PROVE UNCHANGED
    pipelineState
  BY <1>7 DEF AssignIdentity
<1>8. ASSUME NEW b \in Batches, NEW s \in BatchStatus, ControlBatch(b, s) PROVE
    UNCHANGED pipelineState
  BY <1>8 DEF ControlBatch, LegalTransition
<1>. QED
  BY <1>1, <1>2, <1>3, <1>4, <1>5, <1>6, <1>7, <1>8 DEF Next, WorkerStep, vars

\* Each row keeps the evidence for its state, old or newly written.
LEMMA StatesEvidence == EvidenceInv /\ [Next]_vars => StatesBacked'
<1>. SUFFICES ASSUME EvidenceInv, [Next]_vars, NEW g \in Groups
              PROVE  Backed(g, pipelineState[g])'
  BY DEF StatesBacked
<1>1. TypeInv /\ TypeInv' /\ ChunksSound /\ ChunksSound' /\ ArtifactsGrow
  BY TypeStep, ChunksStay, ArtifactsAccumulate DEF EvidenceInv
<1>2. PICK s \in States : s = pipelineState'[g]
  BY <1>1 DEF TypeInv, TypeOK, RowTypeOK
<1>3. Backed(g, s)
  <2>1. CASE pipelineState' = pipelineState
    BY <1>2, <2>1 DEF EvidenceInv, StatesBacked
  <2>2. ASSUME NEW w \in Workers, pc[w] = "release", final[w] # None,
               pipelineState' = [pipelineState EXCEPT ![grp[w]] = final[w]]
        PROVE  Backed(g, s)
    <3>1. Backed(grp[w], final[w])
      BY <2>2 DEF EvidenceInv, WorkersBacked, WorkerBacked
    <3>2. Backed(g, pipelineState[g])
      BY DEF EvidenceInv, StatesBacked
    <3>3. s = IF g = grp[w] THEN final[w] ELSE pipelineState[g]
      BY <1>1, <1>2, <2>2 DEF TypeInv, TypeOK, RowTypeOK
    <3>. QED
      BY <3>1, <3>2, <3>3
  <2>. QED
    BY <1>1, <2>1, <2>2, StateWritten DEF OnlyReleasesWrite
<1>4. Backed(g, s)'
  BY <1>1, <1>3, EvidenceStable
<1>. QED
  BY <1>2, <1>4

\* The rows that earlier runs left come with the evidence for their state.
LEMMA EvidenceInit == Init => EvidenceInv
<1>. SUFFICES ASSUME Init PROVE EvidenceInv
  OBVIOUS
<1>. USE SizesAssumption DEF Init, StartedWith
<1>1. TypeInv
  BY TypeInit
<1>2. ChunksSound
  BY DEF ChunksSound
<1>3. WorkersBacked
  BY DEF WorkersBacked, WorkerBacked
<1>4. StatesBacked
  <2>. SUFFICES ASSUME NEW g \in Groups PROVE Backed(g, scenario.start[g])
    BY DEF StatesBacked
  <2>1. scenario.start[g] \in StartStates /\ NChunks[g] \in Nat
    BY ScopeAssumption
  <2>2. HasArtifacts(g, scenario.start[g])
    BY <2>1 DEF HasArtifacts, StartStates
  <2>3. HasAttempts(g, scenario.start[g])
    BY <2>1 DEF HasAttempts, StartStates
  <2>. QED
    BY <2>2, <2>3 DEF Backed
<1>. QED
  BY <1>1, <1>2, <1>3, <1>4 DEF EvidenceInv

\* The strengthened invariant holds throughout.
LEMMA EvidenceHolds == Spec => []EvidenceInv
<1>1. EvidenceInv /\ [Next]_vars => EvidenceInv'
  BY TypeStep, ChunksStay, WorkersEvidence, StatesEvidence DEF EvidenceInv
<1>. QED
  BY EvidenceInit, <1>1, PTL DEF Spec

\* No interleaving of workers, late ones included, lets a row claim a document,
\* chunks or vectors that are not there.
THEOREM ArtifactsTrustworthy == Spec => []ArtifactsBehindState
<1>1. EvidenceInv => ArtifactsBehindState
  BY DEF EvidenceInv, StatesBacked, Backed, ArtifactsBehindState
<1>. QED
  BY EvidenceHolds, <1>1, PTL

\* No row is ever in a state that its audit trail does not account for.
THEOREM AttemptsTrustworthy == Spec => []AttemptsBehindState
<1>1. EvidenceInv => AttemptsBehindState
  BY DEF EvidenceInv, StatesBacked, Backed, AttemptsBehindState
<1>. QED
  BY EvidenceHolds, <1>1, PTL

-----------------------------------------------------------------------------
(* The ledger of reservations.  Charges are lost where a group that has a  *)
(* reservation is charged again.  The strengthening says that at most one  *)
(* worker is about to charge a row for the first time, and that the row    *)
(* then has no reservation.  A worker between its claim and the read of    *)
(* its generation is safe from losing that claim to anybody but one who    *)
(* gives the row up as FAILED, after which nobody claims it.               *)

\* w has not read its generation, or not inserted its document.
Early(w) == pc[w] \in {"claimed", "normalize", "findDocument", "insertDocument"}

\* A fenced statement of w would find its generation.
Names(w) == gen[w] \in {Unloaded, claimGeneration[grp[w]]}

\* w is on its way to give the row up as FAILED.
Retreats(w) ==
    /\ stage[w] # "NORMALIZING"
    /\ \/ pc[w] = "fail"
       \/ pc[w] \in {"unreserve", "release"} /\ final[w] = "FAILED"

\* Where w is in its attempt, and what its locals then are.
Placed(w) ==
    /\ pc[w] = "idle" => charged[w] = None /\ final[w] = None
    /\ pc[w] \in {"idle", "claimed"} => gen[w] = Unloaded
    /\ pc[w] # "idle" => gen[w] <= claimGeneration[grp[w]]
    /\ pc[w] \in {"normalize", "findDocument", "insertDocument"} => stage[w] = "NORMALIZING"
    /\ pc[w] \in {"chunkLookup", "chunkExtract", "chunkInsert"} => stage[w] = "CHUNKING"
    /\ pc[w] \in {"embedLookup", "reserve", "embed", "writeVectors", "unreserve", "unclaim"}
          => stage[w] = "EMBEDDING"
    /\ charged[w] # None => stage[w] = "EMBEDDING"
    /\ pc[w] \in {"unreserve", "unclaim"} => final[w] = "FAILED" /\ gen[w] # Unloaded
    /\ pc[w] # "idle" /\ stage[w] # "NORMALIZING" => pipelineState[grp[w]] # "EXTRACTED"
    /\ final[w] # None => final[w] # "EXTRACTED"

\* What w may rely on where no normalizer is late.
Relies(w) ==
    /\ pc[w] \notin {"idle", "claimed"} /\ gen[w] = Unloaded => Retreats(w)
    /\ Early(w) /\ pc[w] # "claimed" => gen[w] = claimGeneration[grp[w]]
    /\ Early(w) /\ stage[w] = "NORMALIZING" => pipelineState[grp[w]] = "EXTRACTED"
    /\ Early(w) => \/ claimedBy[grp[w]] = w /\ grp[w] \notin expired
                   \/ pc[w] = "claimed" /\ pipelineState[grp[w]] = "FAILED"
    /\ pc[w] = "insertDocument" => grp[w] \notin documents

\* w is about to charge the row for the first time.
Precharge(w) ==
    \/ pc[w] = "claimed"
    \/ pc[w] \in {"embedLookup", "reserve"} /\ gen[w] = claimGeneration[grp[w]]

\* Two workers of one row: only one that gives the row up may name the generation
\* of an early one, and not both are about to charge it.
Unrivalled(v, w) ==
    v # w /\ pc[v] # "idle" /\ pc[w] # "idle" /\ grp[v] = grp[w] =>
        /\ Early(w) /\ Names(v) => Retreats(v)
        /\ ~(Precharge(v) /\ Precharge(w))

AllPlaced == \A w \in Workers : Placed(w)
AllRely == \A w \in Workers : Relies(w)
AllUncharged == \A w \in Workers : Precharge(w) => reservedBatch[grp[w]] = None
AllUnrivalled == \A v, w \in Workers : Unrivalled(v, w)

\* The inductive invariant of the ledger.
LedgerInv ==
    /\ TypeInv /\ AllPlaced
    /\ NoLateNormalizer => AllRely /\ AllUncharged /\ AllUnrivalled /\ ChargesAccounted

\* Every step leaves every worker's locals as its place in the attempt has them.
LEMMA PlacedKept ==
    ASSUME TypeInv, TypeInv', AllPlaced, NEW u \in Workers, WorkerStep(u) \/ Crash(u)
    PROVE  AllPlaced'
<1> USE NoneAssumption DEF TypeInv, TypeOK, WorkerTypeOK, RowTypeOK, Goto, rowVars,
    reservationVars, artifactVars, sourceVars, workerVars, Unloaded
<1>1. CASE ReadClaim(u)
  BY <1>1 DEF ReadClaim, FirstStep, Stages, AllPlaced, Placed
<1>2. CASE Normalize(u)
  BY <1>2 DEF Normalize, AllPlaced, Placed
<1>3. CASE FindDocument(u)
  BY <1>3 DEF FindDocument, AllPlaced, Placed
<1>4. CASE InsertDocument(u)
  BY <1>4 DEF InsertDocument, AllPlaced, Placed
<1>5. CASE ChunkLookup(u)
  BY <1>5 DEF ChunkLookup, AllPlaced, Placed
<1>6. CASE ExtractForChunks(u)
  BY <1>6 DEF ExtractForChunks, AllPlaced, Placed
<1>7. CASE InsertChunks(u)
  BY <1>7 DEF InsertChunks, AllPlaced, Placed
<1>8. CASE EmbedLookup(u)
  BY <1>8 DEF EmbedLookup, RunningOwners, AllPlaced, Placed
<1>9. CASE Reserve(u)
  BY <1>9 DEF Reserve, Admitted, Fenced, MyGeneration, AllPlaced, Placed
<1>10. CASE ReserveDenied(u)
  BY <1>10 DEF ReserveDenied, AllPlaced, Placed
<1>11. CASE Embed(u)
  BY <1>11 DEF Embed, AllPlaced, Placed
<1>12. CASE WriteVectors(u)
  BY <1>12 DEF WriteVectors, AllPlaced, Placed
<1>13. CASE WriteVectorsFails(u)
  BY <1>13 DEF WriteVectorsFails, Finish, AllPlaced, Placed
<1>14. CASE RecordSuccess(u)
  <2>1. FinalState(u) # "EXTRACTED"
    BY DEF FinalState, Stages
  <2>2. QED
    BY <1>14, <2>1 DEF RecordSuccess, AllPlaced, Placed
<1>15. CASE RecordFailure(u)
  BY <1>15 DEF RecordFailure, AfterFailure, MyGeneration, AllPlaced, Placed
<1>16. CASE Consume(u)
  BY <1>16 DEF Consume, Finish, ClearReservation, Fenced, MyGeneration, AllPlaced,
      Placed
<1>17. CASE Unreserve(u)
  BY <1>17 DEF Unreserve, ClearReservation, CreditBack, Fenced, MyGeneration, AllPlaced,
      Placed
<1>18. CASE Unclaim(u)
  BY <1>18 DEF Unclaim, ReleaseRow, Fenced, MyGeneration, AllPlaced, Placed
<1>19. CASE Release(u)
  BY <1>19 DEF Release, ReleaseRow, Finish, Fenced, MyGeneration, AllPlaced, Placed
<1>20. CASE Crash(u)
  BY <1>20 DEF Crash, Finish, AllPlaced, Placed
<1> QED
  BY <1>1, <1>2, <1>3, <1>4, <1>5, <1>6, <1>7, <1>8, <1>9, <1>10, <1>11, <1>12, <1>13,
      <1>14, <1>15, <1>16, <1>17, <1>18, <1>19, <1>20 DEF WorkerStep

\* The end of an invocation, worker by worker.
Ended(u) ==
    /\ pc'[u] = "idle" /\ gen'[u] = Unloaded /\ charged'[u] = None /\ final'[u] = None
    /\ stage' = stage
    /\ \A v \in Workers \ {u} :
          /\ pc'[v] = pc[v] /\ gen'[v] = gen[v] /\ grp'[v] = grp[v]
          /\ charged'[v] = charged[v] /\ final'[v] = final[v] /\ base'[v] = base[v]

\* Finish says no more than that.
LEMMA FinishEnds ==
    ASSUME TypeInv, NEW u \in Workers, Finish(u)
    PROVE  Ended(u)
BY DEF Finish, Goto, Ended, TypeInv, TypeOK, WorkerTypeOK

\* A release takes no claim from a worker that relies on it.
LEMMA ReleaseRelied ==
    ASSUME TypeInv, TypeInv', AllPlaced, AllPlaced', AllRely, AllUncharged, AllUnrivalled,
           NEW u \in Workers, Release(u)
    PROVE  AllRely'
<1>1. Ended(u) /\ pc[u] = "release" /\ grp[u] \in Groups
  BY FinishEnds DEF Release, TypeInv, TypeOK, WorkerTypeOK, RowTypeOK, Goto, rowVars,
      reservationVars, artifactVars, sourceVars, workerVars
<1>2. /\ claimGeneration' = claimGeneration
      /\ documents' = documents
      /\ reservedBatch' = reservedBatch
      /\ \A g \in Groups : g # grp[u] => /\ claimedBy'[g] = claimedBy[g]
                                         /\ g \in expired' <=> g \in expired
                                         /\ pipelineState'[g] = pipelineState[g]
      /\ \/ UNCHANGED <<claimedBy, expired, pipelineState>>
         \/ /\ Names(u)
            /\ pipelineState'[grp[u]] = IF final[u] = None THEN pipelineState[grp[u]]
                                                          ELSE final[u]
  BY DEF Release, ReleaseRow, Fenced, MyGeneration, Names, TypeInv, TypeOK,
      WorkerTypeOK, RowTypeOK, Goto, rowVars, reservationVars, artifactVars, sourceVars,
      workerVars
<1>3. AllRely'
  <2> SUFFICES ASSUME NEW w \in Workers
               PROVE  Relies(w)'
    BY DEF AllRely
  <2>1. CASE w = u
    BY <1>1, <2>1 DEF Relies, Early, Ended
  <2>2. CASE pc[w] = "idle"
    BY <1>1, <2>2 DEF Relies, Early, Ended
  <2>3. CASE w # u /\ pc[w] # "idle" /\ UNCHANGED <<claimedBy, expired, pipelineState>>
    BY <1>1, <1>2, <2>3 DEF AllRely, Relies, Early, Retreats, Ended
  <2>4. CASE w # u /\ pc[w] # "idle" /\ grp[w] # grp[u]
    BY <1>1, <1>2, <2>4 DEF AllRely, Relies, Early, Retreats, Ended, TypeInv, TypeOK,
        WorkerTypeOK, RowTypeOK, Goto, rowVars, reservationVars, artifactVars,
        sourceVars, workerVars
  <2>5. CASE w # u /\ pc[w] # "idle" /\ grp[w] = grp[u] /\ Names(u)
              /\ pipelineState'[grp[u]] = IF final[u] = None THEN pipelineState[grp[u]]
                                                            ELSE final[u]
    <3>1. Early(w) => /\ Retreats(u)
                      /\ pipelineState'[grp[w]] = "FAILED"
                      /\ pc[w] = "claimed" /\ stage[w] # "NORMALIZING"
      BY <1>1, <2>5, NoneAssumption DEF States, AllUnrivalled, Unrivalled, Retreats,
          AllRely, Relies, Early, AllPlaced, Placed
    <3>2. QED
      BY <1>1, <1>2, <2>5, <3>1 DEF AllRely, Relies, Early, Retreats, Ended
  <2>6. QED
    BY <1>2, <2>1, <2>2, <2>3, <2>4, <2>5
<1>4. QED
  BY <1>3

\* Nobody's step takes from another worker what that worker relies on.
LEMMA RelyKept ==
    ASSUME TypeInv, TypeInv', AllPlaced, AllPlaced', AllRely, AllUncharged, AllUnrivalled,
           NEW u \in Workers, WorkerStep(u) \/ Crash(u)
    PROVE  AllRely'
<1> USE NoneAssumption DEF TypeInv, TypeOK, WorkerTypeOK, RowTypeOK, Goto, rowVars,
    reservationVars, artifactVars, sourceVars, workerVars, Unloaded
<1>1. CASE ReadClaim(u)
  BY <1>1, SMTT(30) DEF ReadClaim, FirstStep, Stages, AllRely, Relies, AllPlaced, Placed,
      Retreats, Early, AllUnrivalled, Unrivalled, Names
<1>2. CASE Normalize(u)
  BY <1>2 DEF Normalize, AllRely, Relies, AllPlaced, Placed, Retreats, Early,
      AllUnrivalled, Unrivalled, Names
<1>3. CASE FindDocument(u)
  BY <1>3 DEF FindDocument, AllRely, Relies, AllPlaced, Placed, Retreats, Early,
      AllUnrivalled, Unrivalled, Names
<1>4. CASE InsertDocument(u)
  BY <1>4 DEF InsertDocument, AllRely, Relies, AllPlaced, Placed, Retreats, Early,
      AllUnrivalled, Unrivalled, Names
<1>5. CASE ChunkLookup(u)
  BY <1>5 DEF ChunkLookup, AllRely, Relies, AllPlaced, Placed, Retreats, Early,
      AllUnrivalled, Unrivalled, Names
<1>6. CASE ExtractForChunks(u)
  BY <1>6 DEF ExtractForChunks, AllRely, Relies, AllPlaced, Placed, Retreats, Early,
      AllUnrivalled, Unrivalled, Names
<1>7. CASE InsertChunks(u)
  BY <1>7 DEF InsertChunks, AllRely, Relies, AllPlaced, Placed, Retreats, Early,
      AllUnrivalled, Unrivalled, Names
<1>8. CASE EmbedLookup(u)
  BY <1>8 DEF EmbedLookup, RunningOwners, AllRely, Relies, AllPlaced, Placed, Retreats,
      Early, AllUnrivalled, Unrivalled, Names
<1>9. CASE Reserve(u)
  BY <1>9 DEF Reserve, Admitted, Fenced, MyGeneration, AllRely, Relies, AllPlaced,
      Placed, Retreats, Early, AllUnrivalled, Unrivalled, Names
<1>10. CASE ReserveDenied(u)
  BY <1>10 DEF ReserveDenied, AllRely, Relies, AllPlaced, Placed, Retreats, Early,
      AllUnrivalled, Unrivalled, Names
<1>11. CASE Embed(u)
  BY <1>11 DEF Embed, AllRely, Relies, AllPlaced, Placed, Retreats, Early,
      AllUnrivalled, Unrivalled, Names
<1>12. CASE WriteVectors(u)
  BY <1>12 DEF WriteVectors, AllRely, Relies, AllPlaced, Placed, Retreats, Early,
      AllUnrivalled, Unrivalled, Names
<1>13. CASE WriteVectorsFails(u)
  BY <1>13 DEF WriteVectorsFails, Finish, AllRely, Relies, AllPlaced, Placed, Retreats,
      Early, AllUnrivalled, Unrivalled, Names
<1>14. CASE RecordSuccess(u)
  BY <1>14 DEF RecordSuccess, FinalState, AllRely, Relies, AllPlaced, Placed, Retreats,
      Early, AllUnrivalled, Unrivalled, Names
<1>15. CASE RecordFailure(u)
  BY <1>15, SMTT(30)
     DEF RecordFailure, AfterFailure, MyGeneration, AllRely, Relies, AllPlaced,
      Placed, Retreats, Early, AllUnrivalled, Unrivalled, Names
<1>16. CASE Consume(u)
  BY <1>16 DEF Consume, Finish, ClearReservation, Fenced, MyGeneration, AllRely, Relies,
      AllPlaced, Placed, Retreats, Early, AllUnrivalled, Unrivalled, Names
<1>17. CASE Unreserve(u)
  <2>1. Fenced(u) /\ reservedBatch[grp[u]] # None => Names(u)
    BY DEF Fenced, MyGeneration, Names
  <2>2. Fenced(u) /\ reservedBatch[grp[u]] # None
           => \A w \in Workers \ {u} : grp[w] = grp[u] => ~Early(w)
    BY <1>17, <2>1 DEF Unreserve, Names, AllUncharged, Precharge, AllUnrivalled,
        Unrivalled, AllPlaced, Placed, Early, AllRely, Relies, Retreats
  <2>3. QED
    BY <1>17, <2>2 DEF Unreserve, ClearReservation, AllRely, Relies, AllPlaced, Placed,
        Retreats, Early
<1>18. CASE Unclaim(u)
  BY <1>18 DEF Unclaim, ReleaseRow, Fenced, MyGeneration, AllRely, Relies, AllPlaced,
      Placed, Retreats, Early, AllUnrivalled, Unrivalled, Names
<1>19. CASE Release(u)
  BY <1>19, ReleaseRelied DEF AllRely
<1>20. CASE Crash(u)
  BY <1>20 DEF Crash, Finish, AllRely, Relies, AllPlaced, Placed, Retreats, Early,
      AllUnrivalled, Unrivalled, Names
<1> QED
  BY <1>1, <1>2, <1>3, <1>4, <1>5, <1>6, <1>7, <1>8, <1>9, <1>10, <1>11, <1>12, <1>13,
      <1>14, <1>15, <1>16, <1>17, <1>18, <1>19, <1>20 DEF WorkerStep

\* Only the one worker that is about to charge a row charges it.
LEMMA UnchargedKept ==
    ASSUME TypeInv, TypeInv', AllPlaced, AllPlaced', AllRely, AllUncharged, AllUnrivalled,
           NEW u \in Workers, WorkerStep(u) \/ Crash(u)
    PROVE  AllUncharged'
<1> USE NoneAssumption DEF TypeInv, TypeOK, WorkerTypeOK, RowTypeOK, Goto, rowVars,
    reservationVars, artifactVars, sourceVars, workerVars, Unloaded
<1>1. CASE ReadClaim(u)
  BY <1>1, SMTT(30) DEF ReadClaim, FirstStep, Stages, AllRely, Relies, AllPlaced, Placed,
      Retreats, Early, AllUncharged, Precharge, AllUnrivalled, Unrivalled, Names
<1>2. CASE Normalize(u)
  BY <1>2 DEF Normalize, AllRely, Relies, AllPlaced, Placed, Retreats, Early,
      AllUncharged, Precharge, AllUnrivalled, Unrivalled, Names
<1>3. CASE FindDocument(u)
  BY <1>3 DEF FindDocument, AllRely, Relies, AllPlaced, Placed, Retreats, Early,
      AllUncharged, Precharge, AllUnrivalled, Unrivalled, Names
<1>4. CASE InsertDocument(u)
  BY <1>4 DEF InsertDocument, AllRely, Relies, AllPlaced, Placed, Retreats, Early,
      AllUncharged, Precharge, AllUnrivalled, Unrivalled, Names
<1>5. CASE ChunkLookup(u)
  BY <1>5 DEF ChunkLookup, AllRely, Relies, AllPlaced, Placed, Retreats, Early,
      AllUncharged, Precharge, AllUnrivalled, Unrivalled, Names
<1>6. CASE ExtractForChunks(u)
  BY <1>6 DEF ExtractForChunks, AllRely, Relies, AllPlaced, Placed, Retreats, Early,
      AllUncharged, Precharge, AllUnrivalled, Unrivalled, Names
<1>7. CASE InsertChunks(u)
  BY <1>7 DEF InsertChunks, AllRely, Relies, AllPlaced, Placed, Retreats, Early,
      AllUncharged, Precharge, AllUnrivalled, Unrivalled, Names
<1>8. CASE EmbedLookup(u)
  BY <1>8 DEF EmbedLookup, RunningOwners, AllRely, Relies, AllPlaced, Placed, Retreats,
      Early, AllUncharged, Precharge, AllUnrivalled, Unrivalled, Names
<1>9. CASE Reserve(u)
  BY <1>9 DEF Reserve, Admitted, Fenced, MyGeneration, AllRely, Relies, AllPlaced,
      Placed, Retreats, Early, AllUncharged, Precharge, AllUnrivalled, Unrivalled, Names
<1>10. CASE ReserveDenied(u)
  BY <1>10 DEF ReserveDenied, AllRely, Relies, AllPlaced, Placed, Retreats, Early,
      AllUncharged, Precharge, AllUnrivalled, Unrivalled, Names
<1>11. CASE Embed(u)
  BY <1>11 DEF Embed, AllRely, Relies, AllPlaced, Placed, Retreats, Early, AllUncharged,
      Precharge, AllUnrivalled, Unrivalled, Names
<1>12. CASE WriteVectors(u)
  BY <1>12 DEF WriteVectors, AllRely, Relies, AllPlaced, Placed, Retreats, Early,
      AllUncharged, Precharge, AllUnrivalled, Unrivalled, Names
<1>13. CASE WriteVectorsFails(u)
  BY <1>13 DEF WriteVectorsFails, Finish, AllRely, Relies, AllPlaced, Placed, Retreats,
      Early, AllUncharged, Precharge, AllUnrivalled, Unrivalled, Names
<1>14. CASE RecordSuccess(u)
  BY <1>14 DEF RecordSuccess, FinalState, AllRely, Relies, AllPlaced, Placed, Retreats,
      Early, AllUncharged, Precharge, AllUnrivalled, Unrivalled, Names
<1>15. CASE RecordFailure(u)
  BY <1>15, SMTT(30)
     DEF RecordFailure, AfterFailure, MyGeneration, AllRely, Relies, AllPlaced,
      Placed, Retreats, Early, AllUncharged, Precharge, AllUnrivalled, Unrivalled, Names
<1>16. CASE Consume(u)
  BY <1>16 DEF Consume, Finish, ClearReservation, Fenced, MyGeneration,
      ReservationTypeOK, AllRely, Relies, AllPlaced, Placed, Retreats, Early,
      AllUncharged, Precharge, AllUnrivalled, Unrivalled, Names
<1>17. CASE Unreserve(u)
  BY <1>17 DEF Unreserve, ClearReservation, CreditBack, Fenced, MyGeneration,
      ReservationTypeOK, AllRely, Relies, AllPlaced, Placed, Retreats, Early,
      AllUncharged, Precharge, AllUnrivalled, Unrivalled, Names
<1>18. CASE Unclaim(u)
  BY <1>18 DEF Unclaim, ReleaseRow, Fenced, MyGeneration, AllRely, Relies, AllPlaced,
      Placed, Retreats, Early, AllUncharged, Precharge, AllUnrivalled, Unrivalled, Names
<1>19. CASE Release(u)
  <2>1. /\ Ended(u) /\ pc[u] = "release"
        /\ UNCHANGED <<claimGeneration, reservedBatch>>
    BY <1>19, FinishEnds DEF Release, ReleaseRow
  <2>2. QED
    BY <2>1 DEF Ended, AllUncharged, Precharge
<1>20. CASE Crash(u)
  BY <1>20, SMTT(30)
     DEF Crash, Finish, AllRely, Relies, AllPlaced, Placed, Retreats, Early,
      AllUncharged, Precharge, AllUnrivalled, Unrivalled, Names
<1> QED
  BY <1>1, <1>2, <1>3, <1>4, <1>5, <1>6, <1>7, <1>8, <1>9, <1>10, <1>11, <1>12, <1>13,
      <1>14, <1>15, <1>16, <1>17, <1>18, <1>19, <1>20 DEF WorkerStep

\* No step makes two workers share a generation they may charge under.
LEMMA UnrivalledKept ==
    ASSUME TypeInv, TypeInv', AllPlaced, AllPlaced', AllRely, AllUncharged, AllUnrivalled,
           NEW u \in Workers, WorkerStep(u) \/ Crash(u)
    PROVE  AllUnrivalled'
<1> USE NoneAssumption DEF TypeInv, TypeOK, WorkerTypeOK, RowTypeOK, Goto, rowVars,
    reservationVars, artifactVars, sourceVars, workerVars, Unloaded
<1>1. CASE ReadClaim(u)
  BY <1>1, SMTT(30) DEF ReadClaim, FirstStep, Stages, AllRely, Relies, AllPlaced, Placed,
      Retreats, Early, AllUncharged, Precharge, AllUnrivalled, Unrivalled, Names
<1>2. CASE Normalize(u)
  BY <1>2 DEF Normalize, AllRely, Relies, AllPlaced, Placed, Retreats, Early,
      AllUncharged, Precharge, AllUnrivalled, Unrivalled, Names
<1>3. CASE FindDocument(u)
  BY <1>3 DEF FindDocument, AllRely, Relies, AllPlaced, Placed, Retreats, Early,
      AllUncharged, Precharge, AllUnrivalled, Unrivalled, Names
<1>4. CASE InsertDocument(u)
  BY <1>4 DEF InsertDocument, AllRely, Relies, AllPlaced, Placed, Retreats, Early,
      AllUncharged, Precharge, AllUnrivalled, Unrivalled, Names
<1>5. CASE ChunkLookup(u)
  BY <1>5 DEF ChunkLookup, AllRely, Relies, AllPlaced, Placed, Retreats, Early,
      AllUncharged, Precharge, AllUnrivalled, Unrivalled, Names
<1>6. CASE ExtractForChunks(u)
  BY <1>6 DEF ExtractForChunks, AllRely, Relies, AllPlaced, Placed, Retreats, Early,
      AllUncharged, Precharge, AllUnrivalled, Unrivalled, Names
<1>7. CASE InsertChunks(u)
  BY <1>7 DEF InsertChunks, AllRely, Relies, AllPlaced, Placed, Retreats, Early,
      AllUncharged, Precharge, AllUnrivalled, Unrivalled, Names
<1>8. CASE EmbedLookup(u)
  BY <1>8 DEF EmbedLookup, RunningOwners, AllRely, Relies, AllPlaced, Placed, Retreats,
      Early, AllUncharged, Precharge, AllUnrivalled, Unrivalled, Names
<1>9. CASE Reserve(u)
  BY <1>9 DEF Reserve, Admitted, Fenced, MyGeneration, AllRely, Relies, AllPlaced,
      Placed, Retreats, Early, AllUncharged, Precharge, AllUnrivalled, Unrivalled, Names
<1>10. CASE ReserveDenied(u)
  BY <1>10 DEF ReserveDenied, AllRely, Relies, AllPlaced, Placed, Retreats, Early,
      AllUncharged, Precharge, AllUnrivalled, Unrivalled, Names
<1>11. CASE Embed(u)
  BY <1>11 DEF Embed, AllRely, Relies, AllPlaced, Placed, Retreats, Early, AllUncharged,
      Precharge, AllUnrivalled, Unrivalled, Names
<1>12. CASE WriteVectors(u)
  BY <1>12 DEF WriteVectors, AllRely, Relies, AllPlaced, Placed, Retreats, Early,
      AllUncharged, Precharge, AllUnrivalled, Unrivalled, Names
<1>13. CASE WriteVectorsFails(u)
  BY <1>13 DEF WriteVectorsFails, Finish, AllRely, Relies, AllPlaced, Placed, Retreats,
      Early, AllUncharged, Precharge, AllUnrivalled, Unrivalled, Names
<1>14. CASE RecordSuccess(u)
  BY <1>14 DEF RecordSuccess, FinalState, AllRely, Relies, AllPlaced, Placed, Retreats,
      Early, AllUncharged, Precharge, AllUnrivalled, Unrivalled, Names
<1>15. CASE RecordFailure(u)
  BY <1>15, SMTT(30)
     DEF RecordFailure, AfterFailure, MyGeneration, AllRely, Relies, AllPlaced,
      Placed, Retreats, Early, AllUncharged, Precharge, AllUnrivalled, Unrivalled, Names
<1>16. CASE Consume(u)
  <2>1. pc[u] = "consume" /\ (Fenced(u) => Names(u))
    BY <1>16 DEF Consume, Fenced, MyGeneration, Names
  <2>2. CASE Fenced(u) /\ reservedBatch[grp[u]] # None
    <3>1. \A w \in Workers \ {u} : grp[w] = grp[u] => ~Early(w)
      BY <2>1, <2>2 DEF AllUnrivalled, Unrivalled, Early, Retreats
    <3>2. QED
      BY <1>16, <2>1, <2>2, <3>1 DEF Consume, ClearReservation, AllUnrivalled, Unrivalled,
          Precharge, Early, Names, Retreats
  <2>3. CASE ~(Fenced(u) /\ reservedBatch[grp[u]] # None)
    BY <1>16, <2>3, SMTT(30)
       DEF Consume, Finish, AllUnrivalled, Unrivalled, Precharge, Early, Names,
        Retreats
  <2>4. QED
    BY <2>2, <2>3
<1>17. CASE Unreserve(u)
  <2>1. pc[u] = "unreserve" /\ (Fenced(u) => Names(u))
    BY <1>17 DEF Unreserve, Fenced, MyGeneration, Names
  <2>2. CASE Fenced(u) /\ reservedBatch[grp[u]] # None
    <3>1. \A w \in Workers \ {u} : grp[w] = grp[u] => ~Early(w)
      BY <2>1, <2>2 DEF Names, AllUncharged, Precharge, AllUnrivalled, Unrivalled,
          AllPlaced, Placed, Early, AllRely, Relies, Retreats
    <3>2. QED
      BY <1>17, <2>1, <2>2, <3>1 DEF Unreserve, ClearReservation, AllUnrivalled,
          Unrivalled, Precharge, Early, Names, Retreats
  <2>3. CASE ~(Fenced(u) /\ reservedBatch[grp[u]] # None)
    BY <1>17, <2>1, <2>3 DEF Unreserve, AllUnrivalled, Unrivalled, Precharge, Early, Names,
        Retreats, AllPlaced, Placed
  <2>4. QED
    BY <2>2, <2>3
<1>18. CASE Unclaim(u)
  BY <1>18 DEF Unclaim, ReleaseRow, Fenced, MyGeneration, AllRely, Relies, AllPlaced,
      Placed, Retreats, Early, AllUncharged, Precharge, AllUnrivalled, Unrivalled, Names
<1>19. CASE Release(u)
  <2>1. /\ Ended(u) /\ pc[u] = "release"
        /\ UNCHANGED <<claimGeneration, reservedBatch>>
    BY <1>19, FinishEnds DEF Release, ReleaseRow
  <2>2. QED
    BY <2>1 DEF Ended, AllUnrivalled, Unrivalled, Precharge, Early, Names, Retreats
<1>20. CASE Crash(u)
  BY <1>20, SMTT(30)
     DEF Crash, Finish, AllRely, Relies, AllPlaced, Placed, Retreats, Early,
      AllUncharged, Precharge, AllUnrivalled, Unrivalled, Names
<1> QED
  BY <1>1, <1>2, <1>3, <1>4, <1>5, <1>6, <1>7, <1>8, <1>9, <1>10, <1>11, <1>12, <1>13,
      <1>14, <1>15, <1>16, <1>17, <1>18, <1>19, <1>20 DEF WorkerStep

\* A claim is granted on no row that another worker relies on.
LEMMA ClaimKept ==
    ASSUME TypeInv, TypeInv', AllPlaced, NEW u \in Workers, NEW s \in Stages, Claim(u, s)
    PROVE  /\ AllPlaced'
           /\ AllRely /\ AllUncharged /\ AllUnrivalled
                 => AllRely' /\ AllUncharged' /\ AllUnrivalled'
<1> USE NoneAssumption DEF TypeInv, TypeOK, WorkerTypeOK, RowTypeOK, Goto, rowVars,
    reservationVars, artifactVars, sourceVars, workerVars, Unloaded, Claim, Claimable,
    EligibleStates, NextGeneration, ClearReservation, ReservationTypeOK, Stages
<1>1. AllPlaced'
  BY DEF AllPlaced, Placed
<1> SUFFICES ASSUME AllRely, AllUncharged, AllUnrivalled
             PROVE  AllRely' /\ AllUncharged' /\ AllUnrivalled'
  BY <1>1
<1>2. AllRely'
  BY DEF AllRely, Relies, AllPlaced, Placed, Retreats, Early
<1>3. AllUncharged'
  BY DEF AllRely, Relies, AllPlaced, Placed, Retreats, Early, AllUncharged, Precharge
<1>4. AllUnrivalled'
  BY DEF AllRely, Relies, AllPlaced, Placed, Retreats, Early, Precharge, AllUnrivalled,
      Unrivalled, Names
<1>5. QED
  BY <1>2, <1>3, <1>4

\* No lease runs out on a worker that relies on it.
LEMMA LeaseKept ==
    ASSUME TypeInv, TypeInv', AllPlaced, NEW g \in Groups, LeaseExpires(g)
    PROVE  /\ AllPlaced'
           /\ NoLateNormalizer /\ AllRely /\ AllUncharged /\ AllUnrivalled
                 => AllRely' /\ AllUncharged' /\ AllUnrivalled'
<1> USE NoneAssumption DEF TypeInv, TypeOK, WorkerTypeOK, RowTypeOK, Goto, rowVars,
    reservationVars, artifactVars, sourceVars, workerVars, Unloaded, LeaseExpires
<1>1. AllPlaced'
  BY DEF AllPlaced, Placed
<1> SUFFICES ASSUME NoLateNormalizer, AllRely, AllUncharged, AllUnrivalled
             PROVE  AllRely' /\ AllUncharged' /\ AllUnrivalled'
  BY <1>1
<1>2. AllRely'
  BY DEF AllRely, Relies, Retreats, Early, NoLateNormalizer
<1>3. AllUncharged'
  BY DEF AllUncharged, Precharge
<1>4. AllUnrivalled'
  BY DEF AllUnrivalled, Unrivalled, Precharge, Early, Names, Retreats
<1>5. QED
  BY <1>2, <1>3, <1>4

\* What a group that gives up its reservation takes from what its batch is held
\* to hold.
LEMMA HeldCleared ==
    ASSUME TypeInv, NEW g \in Groups, ClearReservation(g), NEW b \in Batches
    PROVE  /\ Held(b) \in Int
           /\ Held(b)' = IF reservedBatch[g] = b THEN Held(b) - reservedEmbeddings[g] ELSE Held(b)
<1> DEFINE H == {h \in Groups : reservedBatch[h] = b}
           re == reservedEmbeddings
           re1 == reservedEmbeddings'
<1>1. /\ re \in [Groups -> Nat] /\ reservedBatch \in [Groups -> Batches \cup {None}]
      /\ re1 = [re EXCEPT ![g] = 0]
      /\ reservedBatch' = [reservedBatch EXCEPT ![g] = None]
      /\ b # None
  BY NoneAssumption DEF TypeInv, TypeOK, ReservationTypeOK, ClearReservation
<1>2. IsFiniteSet(H) /\ IsFiniteSet(H \ {g})
  BY GroupsAssumption, FS_Subset
<1>3. Held(b)' = SumFunctionOnSet(re1, H \ {g})
  <2>1. {h \in Groups : reservedBatch'[h] = b} = H \ {g}
    BY <1>1
  <2>2. QED
    BY <2>1 DEF Held
<1>4. Held(b) = SumFunctionOnSet(re, H)
  BY DEF Held
<1>5. /\ \A h \in H : re[h] \in Int
      /\ \A h \in H \ {g} : re1[h] = re[h]
  BY <1>1
<1> HIDE DEF H, re, re1
<1>6. SumFunctionOnSet(re1, H \ {g}) = SumFunctionOnSet(re, H \ {g})
  BY <1>2, <1>5, SumSame
<1>7. SumFunctionOnSet(re, H) \in Int
  BY <1>2, <1>5, SumType
<1>8. CASE g \in H
  <2>1. SumFunctionOnSet(re, H) = re[g] + SumFunctionOnSet(re, H \ {g})
    BY <1>2, <1>5, <1>8, SumRemove
  <2>2. SumFunctionOnSet(re, H \ {g}) \in Int
    BY <1>2, <1>5, SumType
  <2>3. re[g] \in Int /\ reservedBatch[g] = b
    BY <1>1, <1>8 DEF H
  <2>4. Held(b)' = Held(b) - re[g]
    BY <1>3, <1>4, <1>6, <2>1, <2>2, <2>3
  <2>5. QED
    BY <1>4, <1>7, <2>3, <2>4 DEF re
<1>9. CASE g \notin H
  <2>1. H \ {g} = H /\ reservedBatch[g] # b
    BY <1>9 DEF H
  <2>2. QED
    BY <1>3, <1>4, <1>6, <1>7, <2>1
<1>10. QED
  BY <1>8, <1>9

\* A group without a reservation that takes one adds it to its batch.
LEMMA HeldAdded ==
    ASSUME TypeInv, NEW g \in Groups, reservedBatch[g] = None, NEW c \in Batches, NEW n \in Nat,
           reservedEmbeddings' = [reservedEmbeddings EXCEPT ![g] = n],
           reservedBatch' = [reservedBatch EXCEPT ![g] = c],
           NEW b \in Batches
    PROVE  /\ Held(b) \in Int
           /\ Held(b)' = IF b = c THEN n + Held(b) ELSE Held(b)
<1> DEFINE H == {h \in Groups : reservedBatch[h] = b}
           re == reservedEmbeddings
           re1 == reservedEmbeddings'
<1>1. /\ re \in [Groups -> Nat] /\ reservedBatch \in [Groups -> Batches \cup {None}]
      /\ re1 = [re EXCEPT ![g] = n]
      /\ b # None
  BY NoneAssumption DEF TypeInv, TypeOK, ReservationTypeOK
<1>2. IsFiniteSet(H) /\ g \notin H
  BY <1>1, GroupsAssumption, FS_Subset
<1>3. Held(b) = SumFunctionOnSet(re, H)
  BY DEF Held
<1>4. /\ \A h \in H : re[h] \in Int /\ re1[h] = re[h]
      /\ \A h \in H \cup {g} : re1[h] \in Int
      /\ re1[g] = n
  BY <1>1, <1>2
<1>5. {h \in Groups : reservedBatch'[h] = b} = IF b = c THEN H \cup {g} ELSE H
  BY <1>1, <1>2
<1>6. Held(b)' = SumFunctionOnSet(re1, IF b = c THEN H \cup {g} ELSE H)
  BY <1>5 DEF Held
<1> HIDE DEF H, re, re1
<1>7. SumFunctionOnSet(re1, H) = SumFunctionOnSet(re, H)
  BY <1>2, <1>4, SumSame
<1>8. SumFunctionOnSet(re, H) \in Int
  BY <1>2, <1>4, SumType
<1>9. SumFunctionOnSet(re1, H \cup {g}) = n + SumFunctionOnSet(re1, H)
  BY <1>2, <1>4, SumAdd
<1>10. QED
  BY <1>3, <1>6, <1>7, <1>8, <1>9

\* Charges stay accounted for: what is charged a first time adds to what the row
\* holds, and what a row gives up is credited or consumed.
LEMMA ChargesKept ==
    ASSUME TypeInv, TypeInv', AllPlaced, AllRely, AllUncharged, ChargesAccounted, [Next]_vars
    PROVE  ChargesAccounted'
<1> USE DEF ReservationTypeOK, TypeInv, TypeOK
<1> SUFFICES ASSUME NEW b \in Batches
             PROVE  embeddingsReserved'[b] = consumed'[b] + Held(b)'
  BY DEF ChargesAccounted
<1>1. /\ embeddingsReserved[b] = consumed[b] + Held(b)
      /\ embeddingsReserved[b] \in Int /\ consumed[b] \in Int
  BY DEF ChargesAccounted
<1>2. CASE UNCHANGED reservationVars
  <2>1. Held(b)' = Held(b)
    BY <1>2 DEF reservationVars, Held
  <2>2. QED
    BY <1>1, <1>2, <2>1 DEF reservationVars
<1>3. ASSUME NEW g \in Groups, ClearReservation(g), embeddingsReserved' = CreditBack(g),
             consumed' = consumed
      PROVE  embeddingsReserved'[b] = consumed'[b] + Held(b)'
  <2>1. /\ Held(b) \in Int /\ reservedEmbeddings[g] \in Int
        /\ Held(b)' = IF reservedBatch[g] = b THEN Held(b) - reservedEmbeddings[g] ELSE Held(b)
    BY <1>3, HeldCleared
  <2>2. embeddingsReserved'[b] = IF reservedBatch[g] = b
                                 THEN embeddingsReserved[b] - reservedEmbeddings[g]
                                 ELSE embeddingsReserved[b]
    BY <1>3, NoneAssumption DEF CreditBack
  <2>3. QED
    BY <1>1, <1>3, <2>1, <2>2
<1>4. ASSUME NEW w \in Workers, NEW s \in Stages, Claim(w, s)
      PROVE  embeddingsReserved'[b] = consumed'[b] + Held(b)'
  BY <1>3, <1>4 DEF Claim
<1>5. ASSUME NEW w \in Workers, Reserve(w)
      PROVE  embeddingsReserved'[b] = consumed'[b] + Held(b)'
  <2> DEFINE n == NChunks[grp[w]] - base[w]
  <2>1. grp[w] \in Groups /\ charged[w] \in Batches /\ n \in Nat
    BY <1>5, SizesAssumption DEF Reserve, WorkerTypeOK, LocalsOK
  <2>2. reservedBatch[grp[w]] = None
    BY <1>5 DEF Reserve, Admitted, Fenced, MyGeneration, AllUncharged, Precharge, AllRely,
        Relies, Retreats
  <2>3. /\ reservedEmbeddings' = [reservedEmbeddings EXCEPT ![grp[w]] = n]
        /\ reservedBatch' = [reservedBatch EXCEPT ![grp[w]] = charged[w]]
        /\ embeddingsReserved' = [embeddingsReserved EXCEPT ![charged[w]] = @ + n]
        /\ consumed' = consumed
    BY <1>5 DEF Reserve
  <2> HIDE DEF n
  <2>4. /\ Held(b) \in Int
        /\ Held(b)' = IF b = charged[w] THEN n + Held(b) ELSE Held(b)
    BY <2>1, <2>2, <2>3, HeldAdded
  <2>5. QED
    BY <1>1, <2>1, <2>3, <2>4
<1>6. ASSUME NEW w \in Workers, Consume(w), ~UNCHANGED reservationVars
      PROVE  embeddingsReserved'[b] = consumed'[b] + Held(b)'
  <2> DEFINE g == grp[w]
  <2>1. /\ g \in Groups /\ ClearReservation(g) /\ reservedBatch[g] \in Batches
        /\ embeddingsReserved' = embeddingsReserved
        /\ consumed' = [consumed EXCEPT ![reservedBatch[g]] = @ + reservedEmbeddings[g]]
    BY <1>6 DEF Consume, WorkerTypeOK
  <2>2. /\ Held(b) \in Int /\ reservedEmbeddings[g] \in Int
        /\ Held(b)' = IF reservedBatch[g] = b THEN Held(b) - reservedEmbeddings[g] ELSE Held(b)
    BY <2>1, HeldCleared
  <2>3. QED
    BY <1>1, <2>1, <2>2
<1>7. ASSUME NEW w \in Workers, Unreserve(w), ~UNCHANGED reservationVars
      PROVE  embeddingsReserved'[b] = consumed'[b] + Held(b)'
  BY <1>3, <1>7 DEF Unreserve, WorkerTypeOK
<1>8. ASSUME NEW w \in Workers,
             WorkerStep(w) \/ Crash(w), ~Reserve(w), ~Consume(w), ~Unreserve(w)
      PROVE  UNCHANGED reservationVars
  BY <1>8 DEF WorkerStep, ReadClaim, Normalize, FindDocument, InsertDocument, ChunkLookup,
      ExtractForChunks, InsertChunks, EmbedLookup, ReserveDenied, Embed, WriteVectors,
      WriteVectorsFails, RecordSuccess, RecordFailure, Unclaim, Release, Crash,
      reservationVars
<1>9. ASSUME NEW g \in Groups, LeaseExpires(g) \/ WriteContent(g)
      PROVE  UNCHANGED reservationVars
  BY <1>9 DEF LeaseExpires, WriteContent, reservationVars
<1>10. ASSUME NEW o \in scenario.occurrences, AssignIdentity(o[1], o[2])
       PROVE  UNCHANGED reservationVars
  BY <1>10 DEF AssignIdentity, reservationVars
<1>11. ASSUME NEW c \in Batches, NEW s \in BatchStatus, ControlBatch(c, s)
       PROVE  UNCHANGED reservationVars
  BY <1>11 DEF ControlBatch, reservationVars
<1>12. CASE UNCHANGED vars
  BY <1>2, <1>12 DEF vars, reservationVars
<1>13. QED
  BY <1>2, <1>4, <1>5, <1>6, <1>7, <1>8, <1>9, <1>10, <1>11, <1>12 DEF Next

\* Nobody is at work and nothing is charged at first.
LEMMA LedgerInit == Init => LedgerInv
<1> SUFFICES ASSUME Init
             PROVE  LedgerInv
  OBVIOUS
<1>1. TypeInv
  BY TypeInit
<1>2. /\ pc = [w \in Workers |-> "idle"] /\ gen = [w \in Workers |-> Unloaded]
      /\ charged = [w \in Workers |-> None] /\ final = [w \in Workers |-> None]
  BY DEF Init
<1>3. AllPlaced /\ AllRely /\ AllUncharged /\ AllUnrivalled
  BY <1>2 DEF AllPlaced, Placed, AllRely, Relies, AllUncharged, AllUnrivalled, Unrivalled,
      Precharge, Early
<1>4. ChargesAccounted
  <2> SUFFICES ASSUME NEW b \in Batches
               PROVE  embeddingsReserved[b] = consumed[b] + Held(b)
    BY DEF ChargesAccounted
  <2>1. {g \in Groups : reservedBatch[g] = b} = {}
    BY NoneAssumption DEF Init
  <2>2. Held(b) = 0
    BY <2>1, SumEmpty DEF Held
  <2>3. embeddingsReserved[b] = 0 /\ consumed[b] = 0
    BY DEF Init
  <2>4. QED
    BY <2>2, <2>3
<1>5. QED
  BY <1>1, <1>3, <1>4 DEF LedgerInv

\* Every step keeps the ledger's invariant.
LEMMA LedgerStep == LedgerInv /\ [Next]_vars => LedgerInv'
<1> SUFFICES ASSUME LedgerInv, [Next]_vars
             PROVE  LedgerInv'
  OBVIOUS
<1> DEFINE Sound == AllRely /\ AllUncharged /\ AllUnrivalled
<1>1. TypeInv' /\ (NoLateNormalizer' <=> NoLateNormalizer)
  BY TypeStep DEF LedgerInv, NoLateNormalizer, Next, vars
<1>2. AllPlaced' /\ (NoLateNormalizer => Sound')
  <2> USE <1>1 DEF LedgerInv
  <2>1. ASSUME NEW u \in Workers, WorkerStep(u) \/ Crash(u)
        PROVE  AllPlaced' /\ (NoLateNormalizer => Sound')
    BY <2>1, PlacedKept, RelyKept, UnchargedKept, UnrivalledKept
  <2>2. ASSUME NEW u \in Workers, NEW s \in Stages, Claim(u, s)
        PROVE  AllPlaced' /\ (NoLateNormalizer => Sound')
    BY <2>2, ClaimKept
  <2>3. ASSUME NEW g \in Groups, LeaseExpires(g)
        PROVE  AllPlaced' /\ (NoLateNormalizer => Sound')
    BY <2>3, LeaseKept
  <2>4. CASE UNCHANGED <<rowVars, reservationVars, artifactVars, pc, workerVars>>
    BY <2>4 DEF AllPlaced, Placed, AllRely, Relies, AllUncharged, AllUnrivalled,
        Unrivalled, Precharge, Early, Names, Retreats, rowVars, reservationVars,
        artifactVars, workerVars
  <2>5. ASSUME NEW g \in Groups, WriteContent(g)
        PROVE  UNCHANGED <<rowVars, reservationVars, artifactVars, pc, workerVars>>
    BY <2>5 DEF WriteContent
  <2>6. ASSUME NEW o \in scenario.occurrences, AssignIdentity(o[1], o[2])
        PROVE  UNCHANGED <<rowVars, reservationVars, artifactVars, pc, workerVars>>
    BY <2>6 DEF AssignIdentity
  <2>7. ASSUME NEW c \in Batches, NEW s \in BatchStatus, ControlBatch(c, s)
        PROVE  UNCHANGED <<rowVars, reservationVars, artifactVars, pc, workerVars>>
    BY <2>7 DEF ControlBatch
  <2>8. CASE UNCHANGED vars
    BY <2>4, <2>8 DEF vars
  <2> HIDE DEF Sound
  <2>9. QED
    BY <2>1, <2>2, <2>3, <2>4, <2>5, <2>6, <2>7, <2>8 DEF Next
<1>3. NoLateNormalizer => ChargesAccounted'
  BY <1>1, ChargesKept DEF LedgerInv
<1>4. QED
  BY <1>1, <1>2, <1>3 DEF LedgerInv

\* Every embedding charged to a batch was consumed or is held by some group,
\* whatever workers die, fail or are overtaken, as long as no normalizer is late.
THEOREM LedgerHolds == Spec => []LedgerBalanced
<1>1. LedgerInv => LedgerBalanced
  BY DEF LedgerInv, LedgerBalanced
<1>2. QED
  BY LedgerInit, LedgerStep, <1>1, PTL DEF Spec
-----------------------------------------------------------------------------
(* Fencing.  A worker whose next fenced statement finds its generation has *)
(* custody of the row: it is the claimant (or has just given the claim     *)
(* back), the row is where its stage found it, and the row's reservation   *)
(* is the one the worker made.  Two workers never have custody of one row, *)
(* so a statement that matches takes nothing from anybody else.            *)

\* The steps a worker that may still insert something is in.
Prompt == {"claimed", "normalize", "findDocument", "insertDocument",
           "chunkLookup", "chunkExtract", "chunkInsert"}

\* w's next fenced statement finds its generation.
Current(w) == pc[w] # "idle" /\ Names(w)

\* The row is w's and nobody may take it.
Holds(w) == Current(w) /\ claimedBy[grp[w]] = w /\ grp[w] \notin expired

\* w has reserved and not yet consumed or given back.
Charges(w) ==
    /\ charged[w] # None
    /\ pc[w] \in {"embed", "writeVectors", "succeed", "consume", "fail", "unreserve"}

\* What w's place in its attempt says where no worker reloads a generation late.
Attempts(w) ==
    /\ scenario.stalls # {} /\ charged[w] # None => pc[w] \notin {"fail", "unreserve", "unclaim"}
    /\ pc[w] \notin {"idle", "claimed"} /\ gen[w] = Unloaded
          => scenario.stalls = {} /\ pc[w] = "fail"
    /\ pc[w] = "insertDocument" => grp[w] \notin documents
    /\ pc[w] \in {"chunkExtract", "chunkInsert"} => grp[w] \notin chunked
    /\ pc[w] \in Prompt \cup {"embedLookup"} => charged[w] = None
    /\ pc[w] \in {"unreserve", "unclaim"} => charged[w] # None

\* What w may count on as long as its generation is the row's.
Custody(w) ==
    /\ pc[w] \in Prompt => Holds(w)
    /\ scenario.stalls = {} /\ pc[w] \notin {"idle", "release"} => Holds(w)
    /\ Current(w) =>
          /\ \/ claimedBy[grp[w]] = w
             \/ claimedBy[grp[w]] = None /\ pc[w] = "release"
          /\ pipelineState[grp[w]] \in EligibleStates(stage[w])
          /\ reservedBatch[grp[w]] = IF Charges(w) THEN charged[w] ELSE None
          /\ Charges(w) => reservedEmbeddings[grp[w]] = NChunks[grp[w]] - base[w]

AllAttempts == \A w \in Workers : Attempts(w)
AllCustody == \A w \in Workers : Custody(w)

\* The inductive invariant of the fence.
FenceInv ==
    /\ TypeInv /\ AllPlaced
    /\ NoLateReload => /\ AllAttempts /\ AllCustody
                       /\ OneHolderPerGeneration /\ NoStrandedReservation

\* Two workers never have custody of one row.
LEMMA OneCurrent ==
    ASSUME TypeInv, AllPlaced, AllAttempts, AllCustody, OneHolderPerGeneration,
           NEW v \in Workers, NEW w \in Workers, Current(v), Current(w), grp[v] = grp[w]
    PROVE  v = w
BY NoneAssumption DEF TypeInv, TypeOK, WorkerTypeOK, AllAttempts, Attempts, AllCustody,
    Custody, Holds, Current, Names, OneHolderPerGeneration, AllPlaced, Placed, Unloaded,
    Prompt

\* The columns of row g and its reservation are left as they are.
RowKept(g) ==
    /\ claimedBy'[g] = claimedBy[g]
    /\ g \in expired' <=> g \in expired
    /\ pipelineState'[g] = pipelineState[g]
    /\ reservedBatch'[g] = reservedBatch[g]
    /\ reservedEmbeddings'[g] = reservedEmbeddings[g]

\* A worker writes its own row only, and only where its generation is the row's.
LEMMA OnlyFencedWrites ==
    ASSUME TypeInv, NEW u \in Workers, WorkerStep(u) \/ Crash(u), NEW g \in Groups
    PROVE  /\ claimGeneration' = claimGeneration
           /\ RowKept(g) \/ (g = grp[u] /\ Current(u))
<1> USE DEF TypeInv, TypeOK, RowTypeOK, ReservationTypeOK, RowKept, Current, Names, Fenced,
    MyGeneration, rowVars, reservationVars, artifactVars, sourceVars, workerVars
<1>1. CASE Reserve(u)
  BY <1>1 DEF Reserve, Admitted
<1>2. CASE Consume(u)
  BY <1>2 DEF Consume, ClearReservation
<1>3. CASE Unreserve(u)
  BY <1>3 DEF Unreserve, ClearReservation
<1>4. CASE Unclaim(u) \/ Release(u)
  BY <1>4 DEF Unclaim, Release, ReleaseRow
<1>5. CASE ~(Reserve(u) \/ Consume(u) \/ Unreserve(u) \/ Unclaim(u) \/ Release(u))
  BY <1>5 DEF WorkerStep, ReadClaim, Normalize, FindDocument, InsertDocument, ChunkLookup,
      ExtractForChunks, InsertChunks, EmbedLookup, ReserveDenied, Embed, WriteVectors,
      WriteVectorsFails, RecordSuccess, RecordFailure, Crash
<1>6. QED
  BY <1>1, <1>2, <1>3, <1>4, <1>5

\* A fenced statement that matches leaves the rows of other workers alone.
LEMMA OthersCustody ==
    ASSUME TypeInv, AllPlaced, AllAttempts, AllCustody, OneHolderPerGeneration,
           UNCHANGED scenario,
           NEW u \in Workers, WorkerStep(u) \/ Crash(u), NEW w \in Workers, w # u
    PROVE  Custody(w)'
<1>1. /\ pc'[w] = pc[w] /\ stage'[w] = stage[w] /\ grp'[w] = grp[w] /\ gen'[w] = gen[w]
      /\ base'[w] = base[w] /\ charged'[w] = charged[w]
  BY StepsAreLocal DEF OthersKeep
<1>2. CASE pc[w] = "idle"
  BY <1>1, <1>2 DEF Custody, Current, Prompt
<1>3. ASSUME pc[w] # "idle"
      PROVE  /\ claimGeneration' = claimGeneration
             /\ RowKept(grp[w]) \/ (grp[w] = grp[u] /\ Current(u))
  BY <1>3, OnlyFencedWrites DEF TypeInv, TypeOK, WorkerTypeOK
<1>4. CASE pc[w] # "idle" /\ ~Current(w)
  BY <1>1, <1>3, <1>4 DEF AllCustody, Custody, Current, Names, Holds
<1>5. CASE Current(w)
  <2>1. RowKept(grp[w])
    BY <1>3, <1>5, OneCurrent DEF Current
  <2>2. QED
    BY <1>1, <1>3, <1>5, <2>1 DEF AllCustody, Custody, Current, Names, Holds, Charges,
        RowKept
<1>6. QED
  BY <1>2, <1>4, <1>5

\* A step that finds its generation ends no settled row and takes no live claim.
LEMMA FencedKeep ==
    ASSUME TypeInv, AllPlaced, AllAttempts, AllCustody, OneHolderPerGeneration,
           NEW u \in Workers, WorkerStep(u) \/ Crash(u)
    PROVE  TerminalKept /\ ClaimsKept
<1> USE DEF AllCustody, Custody, TypeInv, TypeOK, WorkerTypeOK
<1>1. ASSUME NEW g \in Groups, pipelineState[g] \in TerminalStates
      PROVE  pipelineState'[g] = pipelineState[g]
  BY <1>1, OnlyFencedWrites DEF RowKept, EligibleStates, Stages, TerminalStates
<1>2. ASSUME NEW g \in Groups, NEW w \in Workers, claimedBy[g] = w, claimedBy'[g] # w
      PROVE  pc'[w] # pc[w]
  <2>1. g = grp[u] /\ Current(u) /\ u = w
    BY <1>2, NoneAssumption, OnlyFencedWrites DEF RowKept
  <2>2. QED
    BY <1>2, <2>1, SMTT(30)
       DEF WorkerStep, ReadClaim, Normalize, FindDocument, InsertDocument,
        ChunkLookup, ExtractForChunks, InsertChunks, EmbedLookup, Reserve,
        ReserveDenied, Embed, WriteVectors, WriteVectorsFails, RecordSuccess,
        RecordFailure, Consume, Unreserve, Unclaim, Release, Crash, Finish, Goto,
        rowVars
<1>3. QED
  BY <1>1, <1>2 DEF TerminalKept, ClaimsKept

\* Every step leaves every worker where its attempt may be.
LEMMA AttemptsKept ==
    ASSUME TypeInv, TypeInv', AllPlaced, AllPlaced', NoLateReload, AllAttempts, AllCustody,
           OneHolderPerGeneration, NoStrandedReservation,
           UNCHANGED scenario, NEW u \in Workers, WorkerStep(u) \/ Crash(u)
    PROVE  AllAttempts'
<1> USE NoneAssumption DEF TypeInv, TypeOK, WorkerTypeOK, RowTypeOK, Goto, rowVars,
    reservationVars, artifactVars, sourceVars, workerVars, Unloaded
<1>1. CASE ReadClaim(u)
  BY <1>1 DEF ReadClaim, FirstStep, Stages, AllAttempts, Attempts, AllCustody, Custody,
      AllPlaced, Placed, Names, Current, Holds, Charges, Prompt, NoLateReload
<1>2. CASE Normalize(u)
  BY <1>2 DEF Normalize, AllAttempts, Attempts, AllCustody, Custody, AllPlaced, Placed,
      Names, Current, Holds, Charges, Prompt, NoLateReload
<1>3. CASE FindDocument(u)
  BY <1>3, SMTT(30)
     DEF FindDocument, AllAttempts, Attempts, AllCustody, Custody, AllPlaced,
      Placed, Names, Current, Holds, Charges, Prompt, NoLateReload
<1>4. CASE InsertDocument(u)
  BY <1>4 DEF InsertDocument, AllAttempts, Attempts, AllCustody, Custody, AllPlaced,
      Placed, Names, Current, Holds, Charges, Prompt, NoLateReload
<1>5. CASE ChunkLookup(u)
  BY <1>5 DEF ChunkLookup, AllAttempts, Attempts, AllCustody, Custody, AllPlaced,
      Placed, Names, Current, Holds, Charges, Prompt, NoLateReload
<1>6. CASE ExtractForChunks(u)
  BY <1>6 DEF ExtractForChunks, AllAttempts, Attempts, AllCustody, Custody, AllPlaced,
      Placed, Names, Current, Holds, Charges, Prompt, NoLateReload
<1>7. CASE InsertChunks(u)
  BY <1>7 DEF InsertChunks, AllAttempts, Attempts, AllCustody, Custody, AllPlaced,
      Placed, Names, Current, Holds, Charges, Prompt, NoLateReload
<1>8. CASE EmbedLookup(u)
  BY <1>8 DEF EmbedLookup, RunningOwners, AllAttempts, Attempts, AllCustody, Custody,
      AllPlaced, Placed, Names, Current, Holds, Charges, Prompt, NoLateReload
<1>9. CASE Reserve(u)
  BY <1>9 DEF Reserve, ReservationTypeOK, Admitted, Fenced, MyGeneration, AllAttempts,
      Attempts, AllCustody, Custody, AllPlaced, Placed, Names, Current, Holds, Charges,
      Prompt, NoLateReload
<1>10. CASE ReserveDenied(u)
  BY <1>10 DEF ReserveDenied, AllAttempts, Attempts, AllCustody, Custody, AllPlaced,
      Placed, Names, Current, Holds, Charges, Prompt, NoLateReload
<1>11. CASE Embed(u)
  BY <1>11 DEF Embed, AllAttempts, Attempts, AllCustody, Custody, AllPlaced, Placed,
      Names, Current, Holds, Charges, Prompt, NoLateReload
<1>12. CASE WriteVectors(u)
  BY <1>12 DEF WriteVectors, AllAttempts, Attempts, AllCustody, Custody, AllPlaced,
      Placed, Names, Current, Holds, Charges, Prompt, NoLateReload
<1>13. CASE WriteVectorsFails(u)
  BY <1>13 DEF WriteVectorsFails, Finish, AllAttempts, Attempts, AllCustody, Custody,
      AllPlaced, Placed, Names, Current, Holds, Charges, Prompt, NoLateReload
<1>14. CASE RecordSuccess(u)
  BY <1>14 DEF RecordSuccess, AllAttempts, Attempts, AllCustody, Custody, AllPlaced,
      Placed, Names, Current, Holds, Charges, Prompt, NoLateReload
<1>15. CASE RecordFailure(u)
  BY <1>15 DEF RecordFailure, AfterFailure, MyGeneration, AllAttempts, Attempts,
      AllCustody, Custody, AllPlaced, Placed, Names, Current, Holds, Charges, Prompt,
      NoLateReload
<1>16. CASE Consume(u)
  BY <1>16 DEF Consume, ReservationTypeOK, Finish, ClearReservation, Fenced,
      MyGeneration, AllAttempts, Attempts, AllCustody, Custody, AllPlaced, Placed,
      Names, Current, Holds, Charges, Prompt, NoLateReload
<1>17. CASE Unreserve(u)
  BY <1>17 DEF Unreserve, ReservationTypeOK, ClearReservation, Fenced, MyGeneration,
      AllAttempts, Attempts, AllCustody, Custody, AllPlaced, Placed, Names, Current,
      Holds, Charges, Prompt, NoLateReload
<1>18. CASE Unclaim(u)
  BY <1>18 DEF Unclaim, ReleaseRow, Fenced, MyGeneration, AllAttempts, Attempts,
      AllCustody, Custody, AllPlaced, Placed, Names, Current, Holds, Charges, Prompt,
      NoLateReload
<1>19. CASE Release(u)
  BY <1>19, SMTT(30)
     DEF Release, ReleaseRow, Finish, Fenced, MyGeneration, AllAttempts, Attempts,
      AllCustody, Custody, AllPlaced, Placed, Names, Current, Holds, Charges, Prompt,
      NoLateReload
<1>20. CASE Crash(u)
  BY <1>20, SMTT(30)
     DEF Crash, Finish, AllAttempts, Attempts, AllCustody, Custody, AllPlaced,
      Placed, Names, Current, Holds, Charges, Prompt, NoLateReload
<1> QED
  BY <1>1, <1>2, <1>3, <1>4, <1>5, <1>6, <1>7, <1>8, <1>9, <1>10, <1>11, <1>12, <1>13,
      <1>14, <1>15, <1>16, <1>17, <1>18, <1>19, <1>20 DEF WorkerStep

\* A worker's own step leaves it what it holds or gives it back.
LEMMA OwnCustody ==
    ASSUME TypeInv, TypeInv', AllPlaced, AllPlaced', NoLateReload, AllAttempts, AllCustody,
           OneHolderPerGeneration, NoStrandedReservation,
           UNCHANGED scenario, NEW u \in Workers, WorkerStep(u) \/ Crash(u)
    PROVE  Custody(u)'
<1> USE NoneAssumption DEF TypeInv, TypeOK, WorkerTypeOK, RowTypeOK, Goto, rowVars,
    reservationVars, artifactVars, sourceVars, workerVars, Unloaded
<1>1. CASE ReadClaim(u)
  <2>1. /\ pc[u] = "claimed"
        /\ pc' = [pc EXCEPT ![u] = FirstStep(stage[u])]
        /\ UNCHANGED <<rowVars, reservationVars, artifactVars, sourceVars, attempts,
                       batchStatus, stage, grp, base, charged, final, crashes>>
    BY <1>1 DEF ReadClaim
  <2>2. gen' = [gen EXCEPT ![u] = claimGeneration[grp[u]]]
    BY <1>1 DEF ReadClaim
  <2>3. pc'[u] \in {"normalize", "chunkLookup", "embedLookup"}
    BY <2>1 DEF FirstStep, Stages
  <2>. QED
    BY <2>1, <2>2, <2>3, SMTT(30)
       DEF FirstStep, Stages, AllAttempts, Attempts, AllCustody,
        Custody, AllPlaced, Placed, Names, Current, Holds, Charges, Prompt, NoLateReload,
        EligibleStates, Stages
<1>2. CASE Normalize(u)
  BY <1>2 DEF Normalize, AllAttempts, Attempts, AllCustody, Custody, AllPlaced, Placed,
      Names, Current, Holds, Charges, Prompt, NoLateReload, EligibleStates, Stages
<1>3. CASE FindDocument(u)
  BY <1>3 DEF FindDocument, AllAttempts, Attempts, AllCustody, Custody, AllPlaced,
      Placed, Names, Current, Holds, Charges, Prompt, NoLateReload, EligibleStates,
      Stages
<1>4. CASE InsertDocument(u)
  BY <1>4 DEF InsertDocument, AllAttempts, Attempts, AllCustody, Custody, AllPlaced,
      Placed, Names, Current, Holds, Charges, Prompt, NoLateReload, EligibleStates,
      Stages
<1>5. CASE ChunkLookup(u)
  BY <1>5 DEF ChunkLookup, AllAttempts, Attempts, AllCustody, Custody, AllPlaced,
      Placed, Names, Current, Holds, Charges, Prompt, NoLateReload, EligibleStates,
      Stages
<1>6. CASE ExtractForChunks(u)
  BY <1>6 DEF ExtractForChunks, AllAttempts, Attempts, AllCustody, Custody, AllPlaced,
      Placed, Names, Current, Holds, Charges, Prompt, NoLateReload, EligibleStates,
      Stages
<1>7. CASE InsertChunks(u)
  BY <1>7 DEF InsertChunks, AllAttempts, Attempts, AllCustody, Custody, AllPlaced,
      Placed, Names, Current, Holds, Charges, Prompt, NoLateReload, EligibleStates,
      Stages
<1>8. CASE EmbedLookup(u)
  BY <1>8 DEF EmbedLookup, RunningOwners, AllAttempts, Attempts, AllCustody, Custody,
      AllPlaced, Placed, Names, Current, Holds, Charges, Prompt, NoLateReload,
      EligibleStates, Stages
<1>9. CASE Reserve(u)
  BY <1>9, SMTT(30)
     DEF Reserve, ReservationTypeOK, Admitted, Fenced, MyGeneration, AllAttempts,
      Attempts, AllCustody, Custody, AllPlaced, Placed, Names, Current, Holds, Charges,
      Prompt, NoLateReload, EligibleStates, Stages
<1>10. CASE ReserveDenied(u)
  BY <1>10 DEF ReserveDenied, AllAttempts, Attempts, AllCustody, Custody, AllPlaced,
      Placed, Names, Current, Holds, Charges, Prompt, NoLateReload, EligibleStates,
      Stages
<1>11. CASE Embed(u)
  BY <1>11 DEF Embed, AllAttempts, Attempts, AllCustody, Custody, AllPlaced, Placed,
      Names, Current, Holds, Charges, Prompt, NoLateReload, EligibleStates, Stages
<1>12. CASE WriteVectors(u)
  BY <1>12 DEF WriteVectors, AllAttempts, Attempts, AllCustody, Custody, AllPlaced,
      Placed, Names, Current, Holds, Charges, Prompt, NoLateReload, EligibleStates,
      Stages
<1>13. CASE WriteVectorsFails(u)
  BY <1>13 DEF WriteVectorsFails, Finish, AllAttempts, Attempts, AllCustody, Custody,
      AllPlaced, Placed, Names, Current, Holds, Charges, Prompt, NoLateReload,
      EligibleStates, Stages
<1>14. CASE RecordSuccess(u)
  BY <1>14 DEF RecordSuccess, AllAttempts, Attempts, AllCustody, Custody, AllPlaced,
      Placed, Names, Current, Holds, Charges, Prompt, NoLateReload, EligibleStates,
      Stages
<1>15. CASE RecordFailure(u)
  BY <1>15, SMTT(30) DEF RecordFailure, AfterFailure, MyGeneration, AllAttempts, Attempts,
      AllCustody, Custody, AllPlaced, Placed, Names, Current, Holds, Charges, Prompt,
      NoLateReload, EligibleStates, Stages
<1>16. CASE Consume(u)
  BY <1>16 DEF Consume, ReservationTypeOK, Finish, ClearReservation, Fenced,
      MyGeneration, AllAttempts, Attempts, AllCustody, Custody, AllPlaced, Placed,
      Names, Current, Holds, Charges, Prompt, NoLateReload, EligibleStates, Stages
<1>17. CASE Unreserve(u)
  BY <1>17 DEF Unreserve, ReservationTypeOK, ClearReservation, Fenced, MyGeneration,
      AllAttempts, Attempts, AllCustody, Custody, AllPlaced, Placed, Names, Current,
      Holds, Charges, Prompt, NoLateReload, EligibleStates, Stages
<1>18. CASE Unclaim(u)
  BY <1>18 DEF Unclaim, ReleaseRow, Fenced, MyGeneration, AllAttempts, Attempts,
      AllCustody, Custody, AllPlaced, Placed, Names, Current, Holds, Charges, Prompt,
      NoLateReload, EligibleStates, Stages
<1>19. CASE Release(u)
  BY <1>19 DEF Release, ReleaseRow, Finish, Fenced, MyGeneration, AllAttempts, Attempts,
      AllCustody, Custody, AllPlaced, Placed, Names, Current, Holds, Charges, Prompt,
      NoLateReload, EligibleStates, Stages
<1>20. CASE Crash(u)
  BY <1>20 DEF Crash, Finish, AllAttempts, Attempts, AllCustody, Custody, AllPlaced,
      Placed, Names, Current, Holds, Charges, Prompt, NoLateReload, EligibleStates,
      Stages
<1> QED
  BY <1>1, <1>2, <1>3, <1>4, <1>5, <1>6, <1>7, <1>8, <1>9, <1>10, <1>11, <1>12, <1>13,
      <1>14, <1>15, <1>16, <1>17, <1>18, <1>19, <1>20 DEF WorkerStep

\* A generation is only read by the worker it was granted to.
LEMMA HoldersKept ==
    ASSUME TypeInv, TypeInv', AllPlaced, AllPlaced', NoLateReload, AllAttempts, AllCustody,
           OneHolderPerGeneration, NoStrandedReservation,
           UNCHANGED scenario, NEW u \in Workers, WorkerStep(u) \/ Crash(u)
    PROVE  OneHolderPerGeneration'
<1> USE NoneAssumption DEF TypeInv, TypeOK, WorkerTypeOK, RowTypeOK, Goto, rowVars,
    reservationVars, artifactVars, sourceVars, workerVars, Unloaded
<1>1. CASE ReadClaim(u)
  BY <1>1 DEF ReadClaim, FirstStep, Stages, OneHolderPerGeneration, AllAttempts,
      Attempts, AllCustody, Custody, AllPlaced, Placed, Names, Current, Holds
<1>2. CASE Normalize(u)
  BY <1>2 DEF Normalize, OneHolderPerGeneration, AllAttempts, Attempts, AllCustody,
      Custody, AllPlaced, Placed, Names, Current, Holds
<1>3. CASE FindDocument(u)
  BY <1>3 DEF FindDocument, OneHolderPerGeneration, AllAttempts, Attempts, AllCustody,
      Custody, AllPlaced, Placed, Names, Current, Holds
<1>4. CASE InsertDocument(u)
  BY <1>4 DEF InsertDocument, OneHolderPerGeneration, AllAttempts, Attempts, AllCustody,
      Custody, AllPlaced, Placed, Names, Current, Holds
<1>5. CASE ChunkLookup(u)
  BY <1>5 DEF ChunkLookup, OneHolderPerGeneration, AllAttempts, Attempts, AllCustody,
      Custody, AllPlaced, Placed, Names, Current, Holds
<1>6. CASE ExtractForChunks(u)
  BY <1>6 DEF ExtractForChunks, OneHolderPerGeneration, AllAttempts, Attempts,
      AllCustody, Custody, AllPlaced, Placed, Names, Current, Holds
<1>7. CASE InsertChunks(u)
  BY <1>7 DEF InsertChunks, OneHolderPerGeneration, AllAttempts, Attempts, AllCustody,
      Custody, AllPlaced, Placed, Names, Current, Holds
<1>8. CASE EmbedLookup(u)
  BY <1>8 DEF EmbedLookup, RunningOwners, OneHolderPerGeneration, AllAttempts, Attempts,
      AllCustody, Custody, AllPlaced, Placed, Names, Current, Holds
<1>9. CASE Reserve(u)
  BY <1>9 DEF Reserve, ReservationTypeOK, Admitted, Fenced, MyGeneration,
      OneHolderPerGeneration, AllAttempts, Attempts, AllCustody, Custody, AllPlaced,
      Placed, Names, Current, Holds
<1>10. CASE ReserveDenied(u)
  BY <1>10 DEF ReserveDenied, OneHolderPerGeneration, AllAttempts, Attempts, AllCustody,
      Custody, AllPlaced, Placed, Names, Current, Holds
<1>11. CASE Embed(u)
  BY <1>11 DEF Embed, OneHolderPerGeneration, AllAttempts, Attempts, AllCustody,
      Custody, AllPlaced, Placed, Names, Current, Holds
<1>12. CASE WriteVectors(u)
  BY <1>12 DEF WriteVectors, OneHolderPerGeneration, AllAttempts, Attempts, AllCustody,
      Custody, AllPlaced, Placed, Names, Current, Holds
<1>13. CASE WriteVectorsFails(u)
  BY <1>13 DEF WriteVectorsFails, Finish, OneHolderPerGeneration, AllAttempts, Attempts,
      AllCustody, Custody, AllPlaced, Placed, Names, Current, Holds
<1>14. CASE RecordSuccess(u)
  BY <1>14 DEF RecordSuccess, OneHolderPerGeneration, AllAttempts, Attempts, AllCustody,
      Custody, AllPlaced, Placed, Names, Current, Holds
<1>15. CASE RecordFailure(u)
  BY <1>15 DEF RecordFailure, AfterFailure, MyGeneration, OneHolderPerGeneration,
      AllAttempts, Attempts, AllCustody, Custody, AllPlaced, Placed, Names, Current,
      Holds
<1>16. CASE Consume(u)
  BY <1>16 DEF Consume, ReservationTypeOK, Finish, ClearReservation, Fenced,
      MyGeneration, OneHolderPerGeneration, AllAttempts, Attempts, AllCustody, Custody,
      AllPlaced, Placed, Names, Current, Holds
<1>17. CASE Unreserve(u)
  BY <1>17 DEF Unreserve, ReservationTypeOK, ClearReservation, Fenced, MyGeneration,
      OneHolderPerGeneration, AllAttempts, Attempts, AllCustody, Custody, AllPlaced,
      Placed, Names, Current, Holds
<1>18. CASE Unclaim(u)
  BY <1>18 DEF Unclaim, ReleaseRow, Fenced, MyGeneration, OneHolderPerGeneration,
      AllAttempts, Attempts, AllCustody, Custody, AllPlaced, Placed, Names, Current,
      Holds
<1>19. CASE Release(u)
  BY <1>19 DEF Release, ReleaseRow, Finish, Fenced, MyGeneration,
      OneHolderPerGeneration, AllAttempts, Attempts, AllCustody, Custody, AllPlaced,
      Placed, Names, Current, Holds
<1>20. CASE Crash(u)
  BY <1>20, SMTT(30)
     DEF Crash, Finish, OneHolderPerGeneration, AllAttempts, Attempts, AllCustody,
      Custody, AllPlaced, Placed, Names, Current, Holds
<1> QED
  BY <1>1, <1>2, <1>3, <1>4, <1>5, <1>6, <1>7, <1>8, <1>9, <1>10, <1>11, <1>12, <1>13,
      <1>14, <1>15, <1>16, <1>17, <1>18, <1>19, <1>20 DEF WorkerStep

\* A row is only given up for good after its reservation.
LEMMA NoneStrandedKept ==
    ASSUME TypeInv, TypeInv', AllPlaced, AllPlaced', NoLateReload, AllAttempts, AllCustody,
           OneHolderPerGeneration, NoStrandedReservation,
           UNCHANGED scenario, NEW u \in Workers, WorkerStep(u) \/ Crash(u)
    PROVE  NoStrandedReservation'
<1> USE NoneAssumption DEF TypeInv, TypeOK, WorkerTypeOK, RowTypeOK, Goto, rowVars,
    reservationVars, artifactVars, sourceVars, workerVars, Unloaded
<1>1. CASE ReadClaim(u)
  BY <1>1 DEF ReadClaim, FirstStep, Stages, NoStrandedReservation, AllAttempts,
      Attempts, AllCustody, Custody, AllPlaced, Placed, Names, Current, Holds, Charges,
      EligibleStates, Stages, TerminalStates
<1>2. CASE Normalize(u)
  BY <1>2 DEF Normalize, NoStrandedReservation, AllAttempts, Attempts, AllCustody,
      Custody, AllPlaced, Placed, Names, Current, Holds, Charges, EligibleStates,
      Stages, TerminalStates
<1>3. CASE FindDocument(u)
  BY <1>3 DEF FindDocument, NoStrandedReservation, AllAttempts, Attempts, AllCustody,
      Custody, AllPlaced, Placed, Names, Current, Holds, Charges, EligibleStates,
      Stages, TerminalStates
<1>4. CASE InsertDocument(u)
  BY <1>4 DEF InsertDocument, NoStrandedReservation, AllAttempts, Attempts, AllCustody,
      Custody, AllPlaced, Placed, Names, Current, Holds, Charges, EligibleStates,
      Stages, TerminalStates
<1>5. CASE ChunkLookup(u)
  BY <1>5 DEF ChunkLookup, NoStrandedReservation, AllAttempts, Attempts, AllCustody,
      Custody, AllPlaced, Placed, Names, Current, Holds, Charges, EligibleStates,
      Stages, TerminalStates
<1>6. CASE ExtractForChunks(u)
  BY <1>6 DEF ExtractForChunks, NoStrandedReservation, AllAttempts, Attempts,
      AllCustody, Custody, AllPlaced, Placed, Names, Current, Holds, Charges,
      EligibleStates, Stages, TerminalStates
<1>7. CASE InsertChunks(u)
  BY <1>7 DEF InsertChunks, NoStrandedReservation, AllAttempts, Attempts, AllCustody,
      Custody, AllPlaced, Placed, Names, Current, Holds, Charges, EligibleStates,
      Stages, TerminalStates
<1>8. CASE EmbedLookup(u)
  BY <1>8 DEF EmbedLookup, RunningOwners, NoStrandedReservation, AllAttempts, Attempts,
      AllCustody, Custody, AllPlaced, Placed, Names, Current, Holds, Charges,
      EligibleStates, Stages, TerminalStates
<1>9. CASE Reserve(u)
  BY <1>9 DEF Reserve, ReservationTypeOK, Admitted, Fenced, MyGeneration,
      NoStrandedReservation, AllAttempts, Attempts, AllCustody, Custody, AllPlaced,
      Placed, Names, Current, Holds, Charges, EligibleStates, Stages, TerminalStates
<1>10. CASE ReserveDenied(u)
  BY <1>10 DEF ReserveDenied, NoStrandedReservation, AllAttempts, Attempts, AllCustody,
      Custody, AllPlaced, Placed, Names, Current, Holds, Charges, EligibleStates,
      Stages, TerminalStates
<1>11. CASE Embed(u)
  BY <1>11 DEF Embed, NoStrandedReservation, AllAttempts, Attempts, AllCustody, Custody,
      AllPlaced, Placed, Names, Current, Holds, Charges, EligibleStates, Stages,
      TerminalStates
<1>12. CASE WriteVectors(u)
  BY <1>12 DEF WriteVectors, NoStrandedReservation, AllAttempts, Attempts, AllCustody,
      Custody, AllPlaced, Placed, Names, Current, Holds, Charges, EligibleStates,
      Stages, TerminalStates
<1>13. CASE WriteVectorsFails(u)
  BY <1>13 DEF WriteVectorsFails, Finish, NoStrandedReservation, AllAttempts, Attempts,
      AllCustody, Custody, AllPlaced, Placed, Names, Current, Holds, Charges,
      EligibleStates, Stages, TerminalStates
<1>14. CASE RecordSuccess(u)
  BY <1>14 DEF RecordSuccess, NoStrandedReservation, AllAttempts, Attempts, AllCustody,
      Custody, AllPlaced, Placed, Names, Current, Holds, Charges, EligibleStates,
      Stages, TerminalStates
<1>15. CASE RecordFailure(u)
  BY <1>15 DEF RecordFailure, AfterFailure, MyGeneration, NoStrandedReservation,
      AllAttempts, Attempts, AllCustody, Custody, AllPlaced, Placed, Names, Current,
      Holds, Charges, EligibleStates, Stages, TerminalStates
<1>16. CASE Consume(u)
  BY <1>16 DEF Consume, ReservationTypeOK, Finish, ClearReservation, Fenced,
      MyGeneration, NoStrandedReservation, AllAttempts, Attempts, AllCustody, Custody,
      AllPlaced, Placed, Names, Current, Holds, Charges, EligibleStates, Stages,
      TerminalStates
<1>17. CASE Unreserve(u)
  BY <1>17 DEF Unreserve, ReservationTypeOK, ClearReservation, Fenced, MyGeneration,
      NoStrandedReservation, AllAttempts, Attempts, AllCustody, Custody, AllPlaced,
      Placed, Names, Current, Holds, Charges, EligibleStates, Stages, TerminalStates
<1>18. CASE Unclaim(u)
  BY <1>18 DEF Unclaim, ReleaseRow, Fenced, MyGeneration, NoStrandedReservation,
      AllAttempts, Attempts, AllCustody, Custody, AllPlaced, Placed, Names, Current,
      Holds, Charges, EligibleStates, Stages, TerminalStates
<1>19. CASE Release(u)
  BY <1>19 DEF Release, ReleaseRow, Finish, Fenced, MyGeneration, NoStrandedReservation,
      AllAttempts, Attempts, AllCustody, Custody, AllPlaced, Placed, Names, Current,
      Holds, Charges, EligibleStates, Stages, TerminalStates
<1>20. CASE Crash(u)
  BY <1>20 DEF Crash, Finish, NoStrandedReservation, AllAttempts, Attempts, AllCustody,
      Custody, AllPlaced, Placed, Names, Current, Holds, Charges, EligibleStates,
      Stages, TerminalStates
<1> QED
  BY <1>1, <1>2, <1>3, <1>4, <1>5, <1>6, <1>7, <1>8, <1>9, <1>10, <1>11, <1>12, <1>13,
      <1>14, <1>15, <1>16, <1>17, <1>18, <1>19, <1>20 DEF WorkerStep

\* A claim is granted on no row that somebody has custody of.
LEMMA ClaimFenced ==
    ASSUME TypeInv, TypeInv', AllPlaced, NoLateReload, AllAttempts, AllCustody,
           OneHolderPerGeneration, NoStrandedReservation, UNCHANGED scenario,
           NEW u \in Workers, NEW s \in Stages, Claim(u, s)
    PROVE  AllAttempts' /\ AllCustody' /\ OneHolderPerGeneration' /\ NoStrandedReservation'
<1> USE NoneAssumption DEF TypeInv, TypeOK, WorkerTypeOK, RowTypeOK, Goto, rowVars,
    reservationVars, artifactVars, sourceVars, workerVars, Unloaded, Claim, Claimable,
    NextGeneration, ClearReservation, ReservationTypeOK
<1>1. AllAttempts'
  BY DEF AllAttempts, Attempts, AllPlaced, Placed, Prompt
<1>2. AllCustody'
  BY SMTT(30)
     DEF AllCustody, Custody, Current, Names, Holds, Charges, Prompt, AllAttempts, Attempts,
      AllPlaced, Placed
<1>3. OneHolderPerGeneration'
  BY DEF OneHolderPerGeneration, AllPlaced, Placed
<1>4. NoStrandedReservation'
  BY DEF NoStrandedReservation
<1>5. QED
  BY <1>1, <1>2, <1>3, <1>4

\* No lease runs out on a worker that is prompt.
LEMMA LeaseFenced ==
    ASSUME TypeInv, NoLateReload, AllAttempts, AllCustody, OneHolderPerGeneration,
           NoStrandedReservation, UNCHANGED scenario, NEW g \in Groups, LeaseExpires(g)
    PROVE  AllAttempts' /\ AllCustody' /\ OneHolderPerGeneration' /\ NoStrandedReservation'
<1> USE DEF TypeInv, TypeOK, RowTypeOK, rowVars, reservationVars, artifactVars, sourceVars,
    workerVars, LeaseExpires
<1>1. AllAttempts' /\ OneHolderPerGeneration' /\ NoStrandedReservation'
  BY DEF AllAttempts, Attempts, OneHolderPerGeneration, NoStrandedReservation
<1>2. AllCustody'
  BY DEF AllCustody, Custody, Current, Names, Holds, Charges, Prompt, NoLateReload
<1>3. QED
  BY <1>1, <1>2

\* Nobody has custody of a row at first.
LEMMA FenceInit == Init => FenceInv
<1> SUFFICES ASSUME Init
             PROVE  FenceInv
  OBVIOUS
<1>1. TypeInv /\ AllPlaced
  BY LedgerInit DEF LedgerInv
<1>2. AllAttempts /\ AllCustody /\ OneHolderPerGeneration /\ NoStrandedReservation
  BY DEF Init, AllAttempts, Attempts, AllCustody, Custody, Current, Prompt,
      OneHolderPerGeneration, NoStrandedReservation
<1>3. QED
  BY <1>1, <1>2 DEF FenceInv

\* What a step does to the invariant, to final states and to claims.
LEMMA FenceStep ==
    FenceInv /\ [Next]_vars => FenceInv' /\ (NoLateReload => TerminalKept /\ ClaimsKept)
<1> SUFFICES ASSUME FenceInv, [Next]_vars
             PROVE  FenceInv' /\ (NoLateReload => TerminalKept /\ ClaimsKept)
  OBVIOUS
<1> DEFINE Sound == AllAttempts /\ AllCustody /\ OneHolderPerGeneration /\ NoStrandedReservation
           Kept == TerminalKept /\ ClaimsKept
<1>1. TypeInv' /\ UNCHANGED scenario /\ (NoLateReload' <=> NoLateReload)
  BY TypeStep DEF FenceInv, NoLateReload, Next, vars
<1>2. AllPlaced' /\ (NoLateReload => Sound' /\ Kept)
  <2> USE <1>1 DEF FenceInv
  <2>1. ASSUME NEW u \in Workers, WorkerStep(u) \/ Crash(u)
        PROVE  AllPlaced' /\ (NoLateReload => Sound' /\ Kept)
    <3>1. AllPlaced'
      BY <2>1, PlacedKept
    <3> SUFFICES ASSUME NoLateReload
                 PROVE  Sound' /\ Kept
      BY <3>1
    <3>2. AllAttempts' /\ OneHolderPerGeneration' /\ NoStrandedReservation'
      BY <2>1, <3>1, AttemptsKept, HoldersKept, NoneStrandedKept
    <3>3. AllCustody'
      BY <2>1, <3>1, OwnCustody, OthersCustody DEF AllCustody
    <3>4. Kept
      BY <2>1, FencedKeep
    <3>5. QED
      BY <3>2, <3>3, <3>4
  <2>2. ASSUME NEW u \in Workers, NEW s \in Stages, Claim(u, s)
        PROVE  AllPlaced' /\ (NoLateReload => Sound' /\ Kept)
    <3>1. AllPlaced'
      BY <2>2, ClaimKept
    <3>2. NoLateReload => Sound'
      BY <2>2, <3>1, ClaimFenced
    <3>3. Kept
      BY <2>2, NoneAssumption DEF TerminalKept, ClaimsKept, Claim, Claimable, TypeInv,
          TypeOK, RowTypeOK
    <3>4. QED
      BY <3>1, <3>2, <3>3
  <2>3. ASSUME NEW g \in Groups, LeaseExpires(g)
        PROVE  AllPlaced' /\ (NoLateReload => Sound' /\ Kept)
    <3>1. AllPlaced'
      BY <2>3, LeaseKept
    <3>2. NoLateReload => Sound'
      BY <2>3, LeaseFenced
    <3>3. Kept
      BY <2>3 DEF TerminalKept, ClaimsKept, LeaseExpires
    <3>4. QED
      BY <3>1, <3>2, <3>3
  <2>4. CASE UNCHANGED <<rowVars, reservationVars, artifactVars, pc, workerVars>>
    BY <2>4 DEF AllPlaced, Placed, AllAttempts, Attempts, AllCustody, Custody, Current,
        Names, Holds, Charges, OneHolderPerGeneration, NoStrandedReservation,
        TerminalKept, ClaimsKept, rowVars, reservationVars, artifactVars, workerVars
  <2>5. ASSUME NEW g \in Groups, WriteContent(g)
        PROVE  UNCHANGED <<rowVars, reservationVars, artifactVars, pc, workerVars>>
    BY <2>5 DEF WriteContent
  <2>6. ASSUME NEW o \in scenario.occurrences, AssignIdentity(o[1], o[2])
        PROVE  UNCHANGED <<rowVars, reservationVars, artifactVars, pc, workerVars>>
    BY <2>6 DEF AssignIdentity
  <2>7. ASSUME NEW c \in Batches, NEW s \in BatchStatus, ControlBatch(c, s)
        PROVE  UNCHANGED <<rowVars, reservationVars, artifactVars, pc, workerVars>>
    BY <2>7 DEF ControlBatch
  <2>8. CASE UNCHANGED vars
    BY <2>4, <2>8 DEF vars
  <2> HIDE DEF Sound, Kept
  <2>9. QED
    BY <2>1, <2>2, <2>3, <2>4, <2>5, <2>6, <2>7, <2>8 DEF Next
<1>3. QED
  BY <1>1, <1>2 DEF FenceInv

\* A generation names one attempt: no worker of an older one takes the row, its
\* reservation or its claim from the holder or changes a terminal state, and no
\* reservation is stranded, under the hypothesis of FencingProtects.
THEOREM FencingHolds == Spec => FencingProtects
<1>1. FenceInv => (NoLateReload => /\ OneHolderPerGeneration /\ ReservationHeld
                                   /\ NoStrandedReservation)
  BY NoneAssumption DEF FenceInv, AllCustody, Custody, Current, Names, Charges,
      ReservationHeld
<1>2. FenceInv /\ [Next]_vars => [NoLateReload => TerminalKept /\ ClaimsKept]_vars
  BY FenceStep
<1>3. QED
  BY FenceInit, FenceStep, <1>1, <1>2, PTL DEF Spec, FencingProtects
=============================================================================
