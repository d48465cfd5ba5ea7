-------------------------------- MODULE MCRegExpr --------------------------------
(***************************************************************************)
(* Small instances of RegExpr: every input of up to six actions over two  *)
(* registers and two constants, for words of three bits.                   *)
(***************************************************************************)
EXTENDS Expressions, Naturals

ASSUME Expr!RegExprAssumption

MCTools == {"t1", "t2c", "t2cpp", "calc", "calc2"}
MCRegs == {0, 3}
MCNumbers == {1, 6}
MCSpec == Expr!Spec
=============================================================================
