SPECIFICATION Spec
CONSTANTS
    N <- MCN
    NF <- MCNF
    Modules <- MCModules
INVARIANTS
    TypeOK
    ErasesSafely
    OutputRight
PROPERTIES
    DrainProgresses
    ImplementsDeadCode
CHECK_DEADLOCK FALSE
