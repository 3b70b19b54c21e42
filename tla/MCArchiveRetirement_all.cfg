\* Scripts that die, faults, and hands at the drive.
CONSTANTS
    x = x
    y = y
    z = z
    zipA = zipA
    zipB = zipB
    zipN = zipN
    None = None
    Paths <- MCPaths
    Contents <- MCContents
    Size <- MCSize
    Inside <- MCInside
    Name <- MCName
    Order <- MCOrder
    RelPath <- MCRelPath
    Scenarios <- AllScenarios
SPECIFICATION FairSpec
INVARIANTS LooseIsTrue
PROPERTIES RetiredIsKept RerunsFinish
CHECK_DEADLOCK FALSE
