SPECIFICATION Spec
CONSTANTS
    Disks <- DisksDef
    JsonNames <- JsonNamesDef
    Inputs <- InputsDef
    Outputs <- OutputsDef
    MaxCalls = 4
PROPERTIES WrittenAsLoaded LostFiles MergeKeepsInputs
CHECK_DEADLOCK FALSE
