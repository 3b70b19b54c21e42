\* Conversations that the cut of the history has reached.
CONSTANTS
    Null = Null
    Turns <- MCTurns
    MaxToolIterations = 2
    MaxCalls = 1
    Settings <- LongScenarios
SPECIFICATION ChatSpec
INVARIANTS TitleRefreshed
CHECK_DEADLOCK FALSE
