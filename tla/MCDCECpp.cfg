SPECIFICATION Spec
CONSTANTS
    N <- MCN
    NF <- MCNF
    Modules <- MCModules
INVARIANTS
    TypeOK
    DrainsInTurn
    OutputRight
PROPERTIES
    ImplementsDeadCode
CHECK_DEADLOCK FALSE
