\* Two operators and a reconciler race; one operator's process dies; one works alone.
\* Or one guard: free space on each side of every threshold, up to five probes of
\* a process, any number of restarts.
CONSTANTS
    o1 = o1
    o2 = o2
    r1 = r1
    None = None
    Operators = {o1, o2}
    Reconcilers = {r1}
    Reasons <- OneOfEachKind
    Scenarios <- EveryScenario
    MaxProbes = 5
SYMMETRY OperatorSymmetry
SPECIFICATION EitherSpec
INVARIANTS RuntimeIsLowerBound RuntimeAccounted OllamaStopIsPersistent
PROPERTIES FollowsLife StopWins
CHECK_DEADLOCK FALSE
