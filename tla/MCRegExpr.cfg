SPECIFICATION MCSpec
CONSTANTS
    Translators <- MCTools
    Regs <- MCRegs
    Numbers <- MCNumbers
    WordValues = 8
    Unset = Unset
    None = None
    MaxActions = 6
INVARIANTS
    CodeSound
    FileAnswers
CHECK_DEADLOCK FALSE
