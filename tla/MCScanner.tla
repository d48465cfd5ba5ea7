------------------------------- MODULE MCScanner -------------------------------
(***************************************************************************)
(* Small instances of Scanner: every text of up to four bytes, from a file *)
(* or a terminal, with buffers of one to four bytes that are read into two *)
(* at a time, so that tokens end before, at and behind every edge.         *)
(***************************************************************************)
EXTENDS LectureScanners

ASSUME Fx!ScannerAssumption

\* NUL, any other, newline, "-", a digit; NUL, any other, newline, a letter.
MCBytes == [calc |-> {0, 1, 3, 8, 10}, words |-> {0, 1, 2, 3}]
MCMaxInput == [calc |-> 4, words |-> 4]

MCBufSizes == {1, 2, 4}
MCSpec == Fx!Spec
================================================================================
