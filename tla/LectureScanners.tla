---------------------------- MODULE LectureScanners ----------------------------
(***************************************************************************)
(* The flex scanners of the lectures (Scanner) beside those of the         *)
(* compilers, under the names that yylex has for its state.                *)
(***************************************************************************)
EXTENDS FlexTables

CONSTANTS
    ByteClasses, MaxFile, YY_BUF_SIZES, ReadAtMost, MaxEofs    \* see Scanner

VARIABLES
    scanner, input, interactive, yy_n_read,
    yy_ch_buf, yy_n_chars, yy_buffer_status,
    yytext_ptr, yy_c_buf_p, yy_hold_char, yy_cp, yy_bp,
    yy_current_state, yy_last_accepting, yylex_at, yylex_out

Fx == INSTANCE Scanner WITH
    Bytes <- ByteClasses, MaxInput <- MaxFile, BufSizes <- YY_BUF_SIZES,
    YY_READ_BUF_SIZE <- ReadAtMost,
    read <- yy_n_read, ch_buf <- yy_ch_buf, n_chars <- yy_n_chars,
    status <- yy_buffer_status, text <- yytext_ptr, c_buf_p <- yy_c_buf_p,
    hold <- yy_hold_char, cp <- yy_cp, bp <- yy_bp, state <- yy_current_state,
    last <- yy_last_accepting, pc <- yylex_at, out <- yylex_out

\* The tokens are those of the rules (see Scanner).
TokensRight == Fx!TokensRight

\* Nothing is lost in the buffer, and it grows for tokens alone (see Scanner).
BufferSound == Fx!BufferSound

\* The end of the file is found (see Scanner).
EndFound == Fx!Terminates
=============================================================================
