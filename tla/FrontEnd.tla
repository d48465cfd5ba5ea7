------------------------------- MODULE FrontEnd -------------------------------
(***************************************************************************)
(* The two scanners of a MiniC compiler, below and beside its driver: that *)
(* of the command line over myinput (CmdInput), and that of the language   *)
(* over the files of a run (MiniCLex).  They share no state, so one at a   *)
(* time is looked at: part = "words" or "tokens".                          *)
(***************************************************************************)
CONSTANTS
    Letters, MaxArgs, MaxLength, YY_READ_BUF_SIZE, MaxReads,  \* see CmdInput
    MaxFiles, MaxText                                         \* see MiniCLex

VARIABLES
    part,
    args, arg, offset, buf_size, token, words, reads, scan,
    text, read, start, line_num, tokens, lex

C == INSTANCE CmdInput WITH
    Chars <- Letters, argv <- args, targv <- arg, pc <- scan

L == INSTANCE MiniCLex WITH at <- read, pc <- lex

scanning == <<args, arg, offset, buf_size, token, words, reads, scan>>
lexing == <<text, read, start, line_num, tokens, lex>>

\* What myinput hands to the scanner of the command line (see CmdInput).
WordsSound == part = "words" => C!WordsSound

\* What the scanner of MiniC hands to the parser, and the lines it counts (see
\* MiniCLex).
LexSound == part = "tokens" => L!LexSound
=============================================================================
