SPECIFICATION Spec
CONSTANTS
    Vars <- MCVars
    Modulus <- MCModulus
    Tokens <- MCTokens
    MaxTokens = 8
INVARIANTS
    FunctionSound
PROPERTIES
    RunsAsWritten
CHECK_DEADLOCK FALSE
