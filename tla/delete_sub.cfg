SPECIFICATION Spec
CONSTANTS
    Disks <- DisksDef
    JsonNames <- JsonNamesDef
    Inputs <- InputsDef
    Outputs <- OutputsDef
    MaxCalls = 2
PROPERTY SubTilesetsDeleted
CHECK_DEADLOCK FALSE
