\* Stalled workers, failing servers, refused reservations, deaths and operators.
CONSTANTS
    g1 = g1
    g2 = g2
    w1 = w1
    w2 = w2
    None = None
    Groups <- MCGroups
    Workers <- MCWorkers
    Batches <- MCBatches
    NChunks <- TwoChunks
    MaxEmbeddings <- TightEnvelope
    CreatedAt <- MCCreatedAt
    Scenarios <- SafetyScenarios
SYMMETRY WorkerSymmetry
SPECIFICATION Spec
INVARIANTS LedgerBalanced EnvelopeRespected ArtifactsBehindState AttemptsBehindState
PROPERTIES FencingProtects
CHECK_DEADLOCK FALSE
