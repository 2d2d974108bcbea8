SPECIFICATION Spec
CONSTANTS
    Inputs <- InputsDef
    Unit = 2
INVARIANTS OneLeafEach ShownInPlace
CHECK_DEADLOCK FALSE
