\* Executions alone and racing, bad archives, failing inserts and embeddings,
\* operators and a death.
CONSTANTS
    c1 = c1
    c2 = c2
    c3 = c3
    x = x
    y = y
    z = z
    Null = Null
    Torn = Torn
    Calls <- MCCalls
    Paths <- MCPaths
    Contents <- MCContents
    Settings <- SafetySettings
SPECIFICATION FairImportSpec
INVARIANTS CompletedIsWhole
PROPERTIES FollowsLife ExecutionsEnd
CHECK_DEADLOCK FALSE
