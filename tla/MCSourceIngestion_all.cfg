SPECIFICATION FairSpec
CONSTANTS
    Files <- MCFiles
    Archives <- MCArchives
    Members <- MCMembers
    Groups <- MCGroups
    Workers <- MCWorkers
    None = None
    Walk <- MCWalk
    Kind <- MCKind
    ContentOf <- MCContentOf
    CountedAsArchive <- MCCountedAsArchive
    Eligibility <- MCEligibility
    Suffix <- MCSuffix
    Declared <- MCDeclared
    Actual <- MCActual
    Scenarios <- SafetyScenarios
CHECK_DEADLOCK FALSE
INVARIANTS BytesAccounted SuccessIsComplete
PROPERTIES NothingTaken CompletionSound BatchCompletes
