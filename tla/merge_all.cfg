SPECIFICATION Spec
CONSTANTS
    Inputs <- InputsDef
    Unit = 2
INVARIANT EveryInputShown
CHECK_DEADLOCK FALSE
