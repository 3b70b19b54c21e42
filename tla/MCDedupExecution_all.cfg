SPECIFICATION Spec
CONSTANTS
    Docs <- MCDocs
    Paths <- MCPaths
    Inodes <- MCInodes
    Contents <- MCContents
    Executions <- MCExecutions
    Plans <- MCPlans
    Executors <- MCExecutors
    Recoverers <- MCRecoverers
    None = None
    SourceOf <- MCSourceOf
    FileAt <- MCFileAt
    Held <- MCHeld
    PlanOf <- MCPlanOf
    Canonical <- MCCanonical
    Actions <- MCActions
    Scenarios <- SafetyScenarios
INVARIANTS AuditTruthful SuccessExact StopsAtFirstFailure OneExecutor LastCopySurvives RevocationStops
PROPERTIES ExecutionsFinish
CHECK_DEADLOCK FALSE
