-------------------------------- MODULE MCMiniC --------------------------------
(***************************************************************************)
(* Small instances of MiniC: three names, which may be globals, functions, *)
(* parameters and locals, and texts of up to six items, enough for two     *)
(* functions with a parameter, a local and its use, or for a global and a  *)
(* function with two parameters and a block inside its body.               *)
(***************************************************************************)
EXTENDS MiniC, TLC

CONSTANTS x, f, g

MCNames == {x, f, g}
MCSymmetry == Permutations(MCNames)
MCVoid == [base |-> "void", ptr |-> FALSE]
MCInt == [base |-> "int", ptr |-> FALSE]
MCIntPtr == [base |-> "int", ptr |-> TRUE]

\* p2cpp knows int only.
MCRetTypes == [p2 |-> {MCVoid, MCIntPtr}, p2cpp |-> {MCInt, MCIntPtr}]
MCParamTypes == [p2 |-> {MCInt, MCVoid}, p2cpp |-> {MCInt, MCIntPtr}]
================================================================================
