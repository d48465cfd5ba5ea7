SPECIFICATION MCSpec
CONSTANTS
    NumberValues <- MCNumbers
    IntMax = 3
    YYINITDEPTH = 3
    MaxDepths <- MCMaxDepths
    MaxGiven = 7
INVARIANTS
    LinesAnswered
    RejectsAtOnce
    StacksSound
PROPERTIES
    Terminates
CHECK_DEADLOCK FALSE
