SPECIFICATION MCSpec
CONSTANTS
    f = f
    g = g
    out = out
    Names <- MCNames
    OutBc = out
    Tokens <- MCCommandLines
    Contents <- MCContents
    Stdins <- MCStdins
    Missing = Missing
    Bitcode = Bitcode
    NoName = NoName
    Letters <- MCLetters
    MaxArgs = 2
    MaxLength = 4
    YY_READ_BUF_SIZE = 3
    MaxReads = 8
    MaxFiles = 3
    MaxText = 6
INVARIANTS
    FailureReported
CHECK_DEADLOCK FALSE
