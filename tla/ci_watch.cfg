CONSTANTS
    lint = lint
    build = build
    earlier = earlier
    None = None
    Run <- MCRun
    Foreign <- MCForeign
    Registration = 1
    QueueCap = 1
    TotalCap = 2
    ListLimit = 3
    Horizon = 3
    OthersMove = FALSE
SPECIFICATION FairSpec
INVARIANTS SuccessCoversHead StuckQueueIsReal
PROPERTY WatchEnds
CHECK_DEADLOCK FALSE
