\* A long calm conversation, failing turns, and a deletion amid a turn and reviews.
CONSTANTS
    Null = Null
    Turns <- MCTurns
    MaxToolIterations = 2
    MaxCalls = 1
    Settings <- AllScenarios
SPECIFICATION FairSpec
INVARIANTS AuditLinked TitleCurrent
PROPERTIES ReviewStands RequestsEnd
CHECK_DEADLOCK FALSE
