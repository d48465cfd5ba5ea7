---------------------------- MODULE MCStructured ----------------------------
(***************************************************************************)
(* Small instances of Structured: every program of at most eight tokens    *)
(* over two variables and the statements below, integers modulo 3 (so that *)
(* negation is not the identity), for both tools.                          *)
(***************************************************************************)
EXTENDS Structured

MCModulus == 3
MCVars == {"x", "y"}

Imm(n) == [imm |-> n]
Id(v) == [id |-> v]
E(op, a, b) == [op |-> op, a |-> a, b |-> b]
Just(a) == E("leaf", a, a)

Put(v, e) == [t |-> "assign", var |-> v, val |-> e]
On(kind, e) == [t |-> kind, val |-> e]

MCTokens ==
    {Put("x", Just(Imm(2))), Put("x", E("minus", Id("x"), Imm(1))),
     Put("y", E("neg", Id("x"), Id("x"))), Put("y", E("mul", Id("x"), Id("y"))),
     On("if", E("not", Id("y"), Id("y"))), On("if", Just(Id("x"))),
     On("while", Just(Id("x"))),
     On("return", E("plus", Id("x"), Id("x"))), On("return", Just(Id("y"))),
     [t |-> "end"], [t |-> "semi"]}

ASSUME Src!SourceAssumption
=============================================================================
