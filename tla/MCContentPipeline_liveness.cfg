\* One batch stays RUNNING with room for all; the bound on claims is never
\* reached (a death costs one claim more).
CONSTANTS
    g1 = g1
    g2 = g2
    w1 = w1
    w2 = w2
    None = None
    Groups <- MCGroups
    Workers <- MCWorkers
    Batches <- MCBatches
    NChunks <- MixedChunks
    MaxEmbeddings <- AmpleEnvelope
    CreatedAt <- MCCreatedAt
    Scenarios <- LivenessScenarios
SPECIFICATION FairSpec
PROPERTIES EveryGroupSettles
CHECK_DEADLOCK FALSE
