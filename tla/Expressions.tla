----------------------------- MODULE Expressions -----------------------------
(***************************************************************************)
(* The expression translators (RegExpr) beside the code generators of      *)
(* Tutorials/3, under names that are their own.                            *)
(***************************************************************************)
CONSTANTS
    Translators, Regs, Numbers, WordValues, Unset, None, MaxActions  \* see RegExpr

VARIABLES
    translator, emitted, regCnt, regs, lastReg, sem, program, file, pc, actions,
    mean, held, answer, first

Expr == INSTANCE RegExpr WITH
    Tools <- Translators, tool <- translator, code <- emitted, result <- answer

\* Registers and instructions mean what the input says (see RegExpr).
CodeSound == Expr!CodeSound

\* What is written is a program of the whole input (see RegExpr).
FileAnswers == Expr!FileAnswers
=============================================================================
