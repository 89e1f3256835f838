\* Two hosts, up to three lines, tables of at most two rows; the clock moves once.
CONSTANTS
    Host <- MCHost
    File <- MCFile
    HostOf <- MCHostOf
    Kernel <- MCKernel
    NameOf <- MCNameOf
    MajorOf <- MCMajorOf
    Lines <- MCLines
    Updated <- MCUpdated
    Word = 32
    Day = 1
    Month = 3
    ScoreUnit = 2
    ActiveSpan = 3
    Limit = 2
    Orders <- MCOrders
    Start = 7
    Stop = 8
    MaxLines = 3
    None = None
    Malformed = Malformed
SPECIFICATION Spec
CHECK_DEADLOCK FALSE
INVARIANTS
    TypeOK
    FiguresRight
    EveryBootOnce
    DowntimeIsGaps
    SourcesAgree
    TopRanked
    AllTablesOnce
