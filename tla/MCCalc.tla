--------------------------------- MODULE MCCalc ---------------------------------
(***************************************************************************)
(* Small instances of Calc: every input of up to seven tokens over 1 and   *)
(* 2, where 2 * 2 is the least int, with stacks of three places that grow  *)
(* to six and to eight, which seven parentheses exhaust.                   *)
(***************************************************************************)
EXTENDS Calculator

ASSUME Yy!CalcAssumption /\ Yy!TablesAssumption

MCNumbers == {1, 2}
MCMaxDepths == {8}
MCSpec == Yy!Spec
=============================================================================
