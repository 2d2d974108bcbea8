SPECIFICATION Spec
CONSTANTS
    Point <- PointDef
    Names <- NamesDef
    PruneBelow = 2
    Written <- WrittenDef
INVARIANTS TypeOK PointsInOneFile EveryPointShown BoxesCover
