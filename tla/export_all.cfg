SPECIFICATION Spec
CONSTANTS
    Geometries <- GeometriesDef
    Counters = {0, 3}
    FeaturesPerTile = 1
    MaxTileSize = 4
    Unit = 1
INVARIANT AllGeometriesExported
CHECK_DEADLOCK FALSE
