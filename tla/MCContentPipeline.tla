------------------------- MODULE MCContentPipeline -------------------------
(***************************************************************************)
(* Instances of ContentPipeline for TLC.                                   *)
(***************************************************************************)
EXTENDS ContentPipeline, TLC

CONSTANTS g1, g2, w1, w2

MCGroups == {g1, g2}
MCWorkers == {w1, w2}
MCBatches == {1, 2, 3}

\* Two chunks each; and a document of two chunks beside an empty one.
TwoChunks == [g \in Groups |-> 2]
MixedChunks == [g \in Groups |-> IF g = g1 THEN 2 ELSE 0]

MCCreatedAt == [g \in Groups |-> IF g = g1 THEN 1 ELSE 2]

\* Room for half a document in batch 1, for one in batch 2 and for two in
\* batch 3; and for all.
TightEnvelope == [b \in Batches |-> IF b = 3 THEN 4 ELSE b]
AmpleEnvelope == [b \in Batches |-> 8]

Both(state) == [g \in Groups |-> state]
\* Only g1 is there to work on.
Alone(state) == [g \in Groups |-> IF g = g1 THEN state ELSE "INGESTED"]

EveryStepButClaimed == Steps \ {"idle", "claimed"}

\* Workers that may outlast their lease anywhere once they have read the
\* generation they were granted, and every fault.
Stalls ==
    [start |-> Alone("EXTRACTED"), occurrences |-> {<<2, g1>>},
     stalls |-> EveryStepButClaimed, faults |-> FaultKinds, claims |-> 5, deaths |-> 1]

\* Workers that never outlast their lease, but die anywhere.
Prompt ==
    [start |-> Alone("NORMALIZED"), occurrences |-> {<<1, g1>>, <<2, g1>>},
     stalls |-> {}, faults |-> FaultKinds, claims |-> 5, deaths |-> 1]

\* Workers that outlast it anywhere once their document and chunks are there,
\* an embedding server that answers in the end, and two batches.
SlowServer ==
    [start |-> Alone("NORMALIZED"), occurrences |-> {<<1, g1>>, <<2, g1>>},
     stalls |-> {"embedLookup", "reserve", "embed", "writeVectors", "succeed",
                 "consume", "release"},
     faults |-> FaultKinds \ {"embed", "vectorWrite"}, claims |-> 5, deaths |-> 1]

\* The same with a server that fails, and an envelope that could be charged
\* twice.
LateEmbedders ==
    [start |-> Alone("CHUNKED"), occurrences |-> {<<3, g1>>},
     stalls |-> EveryStepButClaimed \ {"normalize", "findDocument", "insertDocument"},
     faults |-> FaultKinds \ {"control"}, claims |-> 6, deaths |-> 1]

\* Two groups that compete for one envelope.
Competition ==
    [start |-> Both("CHUNKED"), occurrences |-> {<<2, g1>>, <<2, g2>>},
     stalls |-> {"embed"}, faults |-> {"embed", "shortReply"},
     claims |-> 4, deaths |-> 1]

\* No reservation is refused and the embedding server answers; workers die.
Undisturbed ==
    [start |-> Both("NORMALIZED"), occurrences |-> {<<1, g1>>, <<1, g2>>},
     stalls |-> {}, faults |-> {"extract"}, claims |-> 8, deaths |-> 2]

SafetyScenarios == {Stalls, Prompt, SlowServer, LateEmbedders, Competition}
LivenessScenarios == {Undisturbed}

WorkerSymmetry == Permutations(Workers)
=============================================================================
