SPECIFICATION MCSpec
CONSTANTS
    ByteClasses <- MCBytes
    MaxFile <- MCMaxInput
    YY_BUF_SIZES <- MCBufSizes
    ReadAtMost = 2
    MaxEofs = 1
INVARIANTS
    TokensRight
    BufferSound
PROPERTIES
    EndFound
CHECK_DEADLOCK FALSE
