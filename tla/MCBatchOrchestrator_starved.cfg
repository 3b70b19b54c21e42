CONSTANTS
    b1 = b1
    b2 = b2
    b3 = b3
    b4 = b4
    w1 = w1
    w2 = w2
    letter = letter
    notes = notes
    photo = photo
    Candidates <- MCCandidates
    Suffix <- MCSuffix
    SizeMB <- MCSizeMB
    DuplicateOf <- MCDuplicateOf
    None = None
    Batches = {b1, b2, b3, b4}
    Drives = {"t7", "retry"}
    Groups = {letter, notes, photo}
    Workers = {w1, w2}
    Ask <- MCAsk
    ContentOf <- MCContentOf
    Walk <- MCWalk
    TooDeep = {1}
    InitialState <- MCInitialState
    Chunks <- MCChunks
    Scenarios <- DenyingScenarios
SPECIFICATION Spec
PROPERTIES ReachesEveryRow
CHECK_DEADLOCK FALSE
