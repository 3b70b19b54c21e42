CONSTANTS
    Docs <- MCDocs
    Contents = {"text", "edited"}
    Callers = {c1, c2}
    None = None
    CreatedAt <- MCCreatedAt
    Recorded <- MCRecorded
    Similar <- MCSimilar
    Scenarios <- AllScenarios
SYMMETRY Interchangeable
SPECIFICATION Spec
INVARIANTS FreshPlanUsable
PROPERTIES DecisionStands GrantIsSound
CHECK_DEADLOCK FALSE
