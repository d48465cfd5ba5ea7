---------------------------- MODULE MCSymbolTable ----------------------------
(***************************************************************************)
(* A small instance of SymbolTable: two nested scopes.  One bucket that    *)
(* holds up to two items stands for 32 that hold up to nine, so the third  *)
(* declaration of a scope doubles its table if it collides with the        *)
(* others.                                                                 *)
(***************************************************************************)
EXTENDS SymbolTable, TLC

CONSTANTS a, b, c

MCNames == {a, b, c}

\* All apart, two that part at the second doubling, two that never part, all
\* in one chain for good.
MCHashes ==
    {(a :> 0 @@ b :> 1 @@ c :> 2), (a :> 0 @@ b :> 2 @@ c :> 1),
     (a :> 5 @@ b :> 5 @@ c :> 0), (a :> 7 @@ b :> 7 @@ c :> 7)}
=============================================================================
