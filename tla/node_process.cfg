SPECIFICATION Spec
CONSTANTS
    p1 = p1
    p2 = p2
    p3 = p3
    p4 = p4
    p5 = p5
    Point <- PointDef
    Path <- PathDef
    JobName <- JobNameDef
    Jobs <- JobsDef
    SplitCount = 2
    ForwardCount = 1
    BalanceCount = 1
    Deepest = 5
    InitialCells = 3
    MaxCells = 4
INVARIANTS TypeOK OutputAllowed SavedIsCurrent NodesWritable
CHECK_DEADLOCK FALSE
