SPECIFICATION MCSpec
CONSTANTS
    Files <- MCFiles
    StatsOf <- MCStatsOf
    Tools <- AllTools
    Funs <- MCFuns
    Graphs <- MCGraphs
    MaxEdits = 2
    WalkGraphs <- MCWalkGraphs
    MaxRedirects = 1
INVARIANTS
    OutputSound
    OriginalKept
    TreesSound
    WalksSound
PROPERTIES
    EndsIfDistinct
CHECK_DEADLOCK FALSE
