---------------------------- MODULE SourceProgram ----------------------------
(***************************************************************************)
(* What a program of the language of Tutorials/3 means, statement by       *)
(* statement, with no basic block in sight: the abstract specification     *)
(* the generated code of Structured.tla is held to.                        *)
(***************************************************************************)
EXTENDS Integers, Sequences, FiniteSets

CONSTANTS
    Vars,        \* the identifiers
    Modulus,     \* integers wrap modulo this (2^64 in the tools)
    Tokens,      \* the statements a program may be made of
    MaxTokens    \* bound: tokens of a program

NoVal == -1      \* the value of a variable that has none

Values == 0..Modulus-1

\* A leaf is an immediate or an identifier; an expression has one operator
\* and at most two leaves ("mul" stands for DIVIDE too).
Leaf == [imm : Values] \cup [id : Vars]
Ops == {"leaf", "plus", "minus", "mul", "neg", "not"}
Exprs == [op : Ops, a : Leaf, b : Leaf]

\* A statement, the opening or the end of a compound one, or the final return.
TokenType ==
    [t : {"assign"}, var : Vars, val : Exprs] \cup
    [t : {"if", "while", "return"}, val : Exprs] \cup
    [t : {"end", "semi"}]

SourceAssumption ==
    /\ Modulus \in Nat \ {0, 1}
    /\ MaxTokens \in Nat
    /\ Tokens \subseteq TokenType
    /\ NoVal \notin Values

LeavesOf(e) ==
    IF e.op \in {"leaf", "neg", "not"} THEN {e.a} ELSE {e.a, e.b}

VarsOf(e) == {v \in Vars : [id |-> v] \in LeavesOf(e)}

\* What operator op makes of u and w.
Apply(op, u, w) ==
    CASE op = "leaf"  -> u
      [] op = "plus"  -> (u + w) % Modulus
      [] op = "minus" -> (u - w) % Modulus
      [] op = "mul"   -> (u * w) % Modulus
      [] op = "neg"   -> (0 - u) % Modulus
      [] op = "not"   -> IF u = 0 THEN 1 ELSE 0

LeafValue(l, env) == IF "imm" \in DOMAIN l THEN l.imm ELSE env[l.id]

Eval(e, env) == Apply(e.op, LeafValue(e.a, env), LeafValue(e.b, env))

-----------------------------------------------------------------------------
\* The nesting of a program.

Openers(p, i) == {j \in 1..i : p[j].t \in {"if", "while"}}
Enders(p, i) == {j \in 1..i : p[j].t = "end"}
Level(p, i) == Cardinality(Openers(p, i)) - Cardinality(Enders(p, i))

\* i opens the statement that j ends.
Encloses(p, i, j) ==
    /\ i < j
    /\ p[i].t \in {"if", "while"}
    /\ p[j].t = "end"
    /\ Level(p, j) = Level(p, i) - 1
    /\ \A k \in i..j-1 : Level(p, k) >= Level(p, i)

OpenerOf(p, j) == CHOOSE i \in 1..j : Encloses(p, i, j)
EndOf(p, i) == CHOOSE j \in i..Len(p) : Encloses(p, i, j)

\* The first statement from i on that does something.
Effective(p, i) == CHOOSE j \in i..Len(p) :
    p[j].t # "semi" /\ \A k \in i..j-1 : p[k].t = "semi"

-----------------------------------------------------------------------------

VARIABLES
    prog,      \* the program read so far
    phase,     \* "write", "run", "returned" or "rejected"
    pos,       \* the statement the program is at, 0 before it runs
    env,       \* the values of the variables
    result     \* what it returned

vars == <<prog, phase, pos, env, result>>

Init ==
    /\ prog = <<>>
    /\ phase = "write"
    /\ pos = 0
    /\ env = [v \in Vars |-> NoVal]
    /\ result = NoVal

Write ==
    /\ phase = "write"
    /\ \E tok \in Tokens : prog' = Append(prog, tok)
    /\ UNCHANGED <<phase, pos, env, result>>

Reject ==
    /\ phase = "write"
    /\ phase' = "rejected"
    /\ UNCHANGED <<prog, pos, env, result>>

Begin ==
    /\ phase = "write"
    /\ phase' = "run"
    /\ pos' = Effective(prog, 1)
    /\ UNCHANGED <<prog, env, result>>

Running(kind) == phase = "run" /\ prog[pos].t = kind

Goto(i) == pos' = Effective(prog, i)

Assign ==
    /\ Running("assign")
    /\ env' = [env EXCEPT ![prog[pos].var] = Eval(prog[pos].val, env)]
    /\ Goto(pos + 1)
    /\ UNCHANGED <<prog, phase, result>>

\* An if or a while enters its body or goes behind it.
Test ==
    /\ Running("if") \/ Running("while")
    /\ IF Eval(prog[pos].val, env) # 0
       THEN Goto(pos + 1)
       ELSE Goto(EndOf(prog, pos) + 1)
    /\ UNCHANGED <<prog, phase, env, result>>

\* The end of a body: a while tests its condition again.
End ==
    /\ Running("end")
    /\ LET o == OpenerOf(prog, pos) IN
          IF prog[o].t = "while" THEN Goto(o) ELSE Goto(pos + 1)
    /\ UNCHANGED <<prog, phase, env, result>>

Return ==
    /\ Running("return")
    /\ result' = Eval(prog[pos].val, env)
    /\ phase' = "returned"
    /\ UNCHANGED <<prog, pos, env>>

Next == Write \/ Reject \/ Begin \/ Assign \/ Test \/ End \/ Return

Spec == Init /\ [][Next]_vars
=============================================================================
