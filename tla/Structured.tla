----------------------------- MODULE Structured -----------------------------
(***************************************************************************)
(* The code generators of Tutorials/3 (C/expr.y, C++/expr.y): while bison  *)
(* reduces the statements of a program, their actions append basic blocks  *)
(* and instructions through one Builder; main writes main.bc.  The second  *)
(* half executes what was generated, so that it can be compared with what  *)
(* the program means (SourceProgram).                                      *)
(*                                                                         *)
(* An expression's loads are issued where its statement is, with no store  *)
(* between them and their use, so an instruction carries the whole         *)
(* expression.  loc is the statement an instruction was generated for.     *)
(* A quotient is a number like the others (SourceProgram): what executing  *)
(* a division by zero does, which LLVM leaves undefined, is left out.      *)
(***************************************************************************)
EXTENDS Integers, Sequences, FiniteSets

CONSTANTS
    Vars, Modulus, Tokens, MaxTokens    \* see SourceProgram

Tools == {"C", "C++"}

VARIABLES
    tool,      \* which of the two generators it is
    prog,      \* the statements reduced so far
    phase,     \* where the parser, then main, then the program is
    open,      \* the compound statements on the parser's stack
    code,      \* the basic blocks of Fn, sequences of instructions
    cur,       \* the block Builder is at the end of
    map,       \* the identifiers that have an alloca
    bc,        \* whether main.bc was written
    at,        \* the block and instruction being executed
    mem,       \* what the stack slot of a variable holds
    slots,     \* the variables whose alloca has been executed
    result     \* what main returned

vars == <<tool, prog, phase, open, code, cur, map, bc, at, mem, slots, result>>
built == <<tool, code, cur, map, open, prog>>
machine == <<at, mem, slots, result>>

\* The abstract program and its operators: what the code means.
Src == INSTANCE SourceProgram WITH
    phase <- IF phase \in {"parse", "head", "built"} THEN "write"
             ELSE IF phase \in {"error", "crashed"} THEN "rejected" ELSE phase,
    pos <- IF at = <<0, 0>> THEN 0 ELSE code[at[1]][at[2]].loc,
    env <- [v \in Vars |-> IF v \in slots THEN mem[v] ELSE -1]

Init ==
    /\ tool \in Tools
    /\ prog = <<>>
    /\ phase = "parse"
    /\ open = <<>>
    /\ code = << <<>> >>        \* the entry block
    /\ cur = 1
    /\ map = {}
    /\ bc = "none"
    /\ at = <<0, 0>>
    /\ mem = [v \in Vars |-> -1]
    /\ slots = {}
    /\ result = -1

-----------------------------------------------------------------------------
\* The grammar: a statement list is not empty, an end needs an open statement.

Top == open[Len(open)]
Pop == SubSeq(open, 1, Len(open) - 1)
ListEmpty == prog = <<>> \/ prog[Len(prog)].t \in {"if", "while"}
Reduce(tok) ==
    /\ tok \in Tokens
    /\ Len(prog) < MaxTokens
    /\ prog' = Append(prog, tok)

\* Leave a way to close what is open and to return within the bound.
RoomFor(n) == Len(prog) + n + Len(open) < MaxTokens

\* The code with instructions appended at the Builder, and n new blocks.
Emitted(is, n) ==
    [code EXCEPT ![cur] = @ \o is] \o [i \in 1..n |-> <<>>]

\* What the tool makes of an expression: the actions for MULTIPLY and DIVIDE
\* are empty in C, where $$ keeps the value of $1.
Gen(e) == IF tool = "C" /\ e.op = "mul" THEN [e EXCEPT !.op = "leaf"] ELSE e

\* An identifier no statement has assigned gives a NULL address to the load.
Loads(e) == Src!VarsOf(e) \subseteq map

Crash ==
    /\ phase \in {"parse", "head"}
    /\ \E tok \in Tokens :
          /\ "val" \in DOMAIN tok /\ ~Loads(tok.val)
          /\ phase = "head" <=> tok.t = "while"
          /\ tok.t = "return" => open = <<>> /\ ~ListEmpty
    /\ phase' = "crashed"
    /\ UNCHANGED <<built, bc, machine>>

-----------------------------------------------------------------------------
\* One action per semantic action of the grammar.

\* ID ASSIGN expr SEMI
Assign(tok) ==
    /\ phase = "parse" /\ tok.t = "assign" /\ RoomFor(1) /\ Reduce(tok)
    /\ Loads(tok.val)
    /\ code' = Emitted(
          (IF tok.var \in map THEN <<>>
           ELSE <<[op |-> "alloca", var |-> tok.var, loc |-> Len(prog')]>>)
          \o <<[op |-> "store", var |-> tok.var, val |-> Gen(tok.val),
                loc |-> Len(prog')]>>, 0)
    /\ map' = map \cup {tok.var}
    /\ UNCHANGED <<tool, phase, open, cur, bc, machine>>

\* SEMI
Null(tok) ==
    /\ phase = "parse" /\ tok.t = "semi" /\ RoomFor(1) /\ Reduce(tok)
    /\ UNCHANGED <<tool, phase, open, code, cur, map, bc, machine>>

\* The comparison with zero and the conditional branch.
Branches(e, yes, no) ==
    <<[op |-> "condbr", val |-> Gen(e), then |-> yes, else |-> no,
       loc |-> Len(prog')]>>

\* IF LPAREN expr RPAREN, the mid-rule action.
If(tok) ==
    /\ phase = "parse" /\ tok.t = "if" /\ RoomFor(3) /\ Reduce(tok)
    /\ Loads(tok.val)
    /\ LET then == Len(code) + 1
           join == Len(code) + 2
       IN  /\ code' = Emitted(Branches(tok.val, then, join), 2)
           /\ cur' = then
           /\ open' = Append(open, [t |-> "if", cond |-> 0, join |-> join])
    /\ UNCHANGED <<tool, phase, map, bc, machine>>

\* WHILE, the first mid-rule action: the block of the condition.
WhileHead ==
    /\ phase = "parse" /\ RoomFor(3)
    /\ \E tok \in Tokens : tok.t = "while"
    /\ LET cond == Len(code) + 1 IN
          /\ code' = Emitted(<<[op |-> "br", to |-> cond,
                                loc |-> Len(prog) + 1]>>, 1)
          /\ cur' = cond
          /\ open' = Append(open, [t |-> "while", cond |-> cond, join |-> 0])
    /\ phase' = "head"
    /\ UNCHANGED <<tool, prog, map, bc, machine>>

Remember(join) == [open EXCEPT ![Len(open)].join = join]

\* LPAREN expr RPAREN, the second: the blocks of the body and behind it.
WhileBody(tok) ==
    /\ phase = "head" /\ tok.t = "while" /\ Reduce(tok)
    /\ Loads(tok.val)
    /\ LET body == Len(code) + 1
           join == Len(code) + 2
       IN  /\ code' = Emitted(Branches(tok.val, body, join), 2)
           /\ cur' = body
           /\ open' = Remember(join)
    /\ phase' = "parse"
    /\ UNCHANGED <<tool, map, bc, machine>>

\* Bugs: the loop's branch leaves the loop, or there is no branch at all.
BackTo_exit(o) == o.join
EndBranch_none(o) == <<>>

\* Where the body of a while branches to: $<bb>2 in C, $<bb>6 in C++.
BackTo(o) == IF tool = "C" THEN o.cond ELSE o.join

EndBranch(o) ==
    <<[op |-> "br", to |-> IF o.t = "if" THEN o.join ELSE BackTo(o),
       loc |-> Len(prog')]>>

\* RBRACE of an if or of a while.
End(tok) ==
    /\ phase = "parse" /\ tok.t = "end" /\ open # <<>> /\ ~ListEmpty
    /\ Reduce(tok)
    /\ code' = Emitted(EndBranch(Top), 0)
    /\ cur' = Top.join
    /\ open' = Pop
    /\ UNCHANGED <<tool, phase, map, bc, machine>>

\* RETURN expr SEMI RBRACE, which ends yyparse with 0.
Return(tok) ==
    /\ phase = "parse" /\ tok.t = "return" /\ open = <<>> /\ ~ListEmpty
    /\ Reduce(tok)
    /\ Loads(tok.val)
    /\ code' = Emitted(<<[op |-> "ret", val |-> Gen(tok.val),
                          loc |-> Len(prog')]>>, 0)
    /\ phase' = "built"
    /\ UNCHANGED <<tool, open, cur, map, bc, machine>>

\* yyparse returns 1: main says so, writes nothing and returns 0.
SyntaxError ==
    /\ phase \in {"parse", "head"}
    /\ phase' = "error"
    /\ UNCHANGED <<built, bc, machine>>

\* main writes main.bc, and somebody runs it.
WriteModule ==
    /\ phase = "built"
    /\ bc' = "written"
    /\ phase' = "run"
    /\ at' = <<1, 1>>
    /\ UNCHANGED <<built, mem, slots, result>>

-----------------------------------------------------------------------------
\* The generated code, as LLVM executes it.

Instr == code[at[1]][at[2]]
Running(op) == phase = "run" /\ Instr.op = op
Forward == at' = <<at[1], at[2] + 1>>
Jump(b) == at' = <<b, 1>>

\* An address is used only once its alloca has been executed.
Addressed == CASE Instr.op \in {"alloca", "br"} -> TRUE
               [] Instr.op = "store" ->
                    {Instr.var} \cup Src!VarsOf(Instr.val) \subseteq slots
               [] OTHER -> Src!VarsOf(Instr.val) \subseteq slots

Alloca ==
    /\ Running("alloca")
    /\ slots' = slots \cup {Instr.var}
    /\ mem' = [mem EXCEPT ![Instr.var] = -1]     \* a new slot, not yet written
    /\ Forward
    /\ UNCHANGED <<phase, built, bc, result>>

Store ==
    /\ Running("store") /\ Addressed
    /\ mem' = [mem EXCEPT ![Instr.var] = Src!Eval(Instr.val, mem)]
    /\ Forward
    /\ UNCHANGED <<phase, built, bc, slots, result>>

Branch ==
    /\ Running("br")
    /\ Jump(Instr.to)
    /\ UNCHANGED <<phase, built, bc, mem, slots, result>>

CondBranch ==
    /\ Running("condbr") /\ Addressed
    /\ Jump(IF Src!Eval(Instr.val, mem) # 0 THEN Instr.then ELSE Instr.else)
    /\ UNCHANGED <<phase, built, bc, mem, slots, result>>

Ret ==
    /\ Running("ret") /\ Addressed
    /\ result' = Src!Eval(Instr.val, mem)
    /\ phase' = "returned"
    /\ UNCHANGED <<built, bc, at, mem, slots>>

\* An alloca that does not dominate the use: nothing is known from here on.
Stray ==
    /\ phase = "run" /\ ~Addressed
    /\ phase' = "undefined"
    /\ UNCHANGED <<built, bc, machine>>

-----------------------------------------------------------------------------

Parse ==
    \/ \E tok \in Tokens :
          \/ Assign(tok) \/ Null(tok) \/ If(tok) \/ WhileBody(tok)
          \/ End(tok) \/ Return(tok)
    \/ WhileHead \/ Crash \/ SyntaxError \/ WriteModule

Execute == Alloca \/ Store \/ Branch \/ CondBranch \/ Ret \/ Stray

Next == Parse \/ Execute

Spec == Init /\ [][Next]_vars

-----------------------------------------------------------------------------
\* Properties.

InstrType ==
    [op : {"alloca"}, var : Vars, loc : Nat] \cup
    [op : {"store"}, var : Vars, val : Src!Exprs, loc : Nat] \cup
    [op : {"br"}, to : Nat, loc : Nat] \cup
    [op : {"condbr"}, val : Src!Exprs, then : Nat, else : Nat, loc : Nat] \cup
    [op : {"ret"}, val : Src!Exprs, loc : Nat]

TypeOK ==
    /\ tool \in Tools
    /\ prog \in Seq(Tokens)
    /\ phase \in {"parse", "head", "built", "run", "returned", "error",
                  "crashed", "undefined"}
    /\ open \in Seq([t : {"if", "while"}, cond : Nat, join : Nat])
    /\ code \in Seq(Seq(InstrType))
    /\ cur \in 1..Len(code)
    /\ map \subseteq Vars
    /\ bc \in {"none", "written"}
    /\ at \in Nat \X Nat
    /\ mem \in [Vars -> Src!Values \cup {-1}]
    /\ slots \subseteq Vars
    /\ result \in Src!Values \cup {-1}

Targets(i) == CASE i.op = "br" -> {i.to}
                [] i.op = "condbr" -> {i.then, i.else}
                [] OTHER -> {}

Terminator(i) == i.op \in {"br", "condbr", "ret"}

Ended(b) == code[b] # <<>> /\ Terminator(code[b][Len(code[b])])

\* The blocks still to be written: the one the Builder is in, and the blocks
\* behind the open statements.
Pending == ({cur} \cup {open[k].join : k \in DOMAIN open}) \ {0}

\* However statements nest, a block has its one terminator at its end, and it
\* has one unless it is still to be written to; branches stay in the function.
\* LLVM's builder checks none of this (expr.y of both tools never verifies).
BlocksEnd ==
    /\ phase \in {"parse", "head", "error", "crashed"} =>
          \A b \in DOMAIN code : Ended(b) <=> b \notin Pending
    /\ phase \notin {"parse", "head", "error", "crashed"} =>
          \A b \in DOMAIN code : Ended(b)
    /\ \A b \in DOMAIN code : \A i \in DOMAIN code[b] :
          /\ Terminator(code[b][i]) => i = Len(code[b])
          /\ Targets(code[b][i]) \subseteq DOMAIN code

\* main.bc is a whole function: it is written only when every statement is
\* closed, and everything in it can be reached from the entry block.
Reached[n \in 0..Len(code)] ==
    IF n = 0 THEN {1}
    ELSE Reached[n - 1] \cup
         UNION {Targets(code[b][Len(code[b])]) : b \in Reached[n - 1]}

WholeFunction ==
    bc = "written" => open = <<>> /\ Reached[Len(code)] = DOMAIN code

\* However statements nest, the function is sound: when it is written, and at
\* every point where the parser may still give up.
FunctionSound == TypeOK /\ BlocksEnd /\ WholeFunction

\* The statements this tool translates: C drops the second operand of * and
\* /, C++ does not loop, and neither has a slot for a variable whose first
\* assignment is not executed.
Translated(tok) ==
    /\ tool = "C" /\ "val" \in DOMAIN tok => tok.val.op # "mul"
    /\ tool = "C++" => tok.t # "while"

FirstAtTop(p) ==
    \A i \in DOMAIN p : p[i].t = "assign" /\ Src!Level(p, i) # 0 =>
        \E j \in 1..i-1 : /\ p[j].t = "assign" /\ p[j].var = p[i].var
                          /\ Src!Level(p, j) = 0

Covered(p) == FirstAtTop(p) /\ \A i \in DOMAIN p : Translated(p[i])

\* The generated code does what the program says, step by step: the same
\* stores, the same way through every if and while, the same result, for all
\* programs that keep to the statements above.
RunsAsWritten ==
    Src!Init /\ [][Covered(prog) => Src!Next]_(Src!vars)

\* "Make an unconditional branch back": what follows the end of a while's
\* body is its condition.
LoopsBack ==
    \A b \in DOMAIN code : \A i \in DOMAIN code[b] :
        LET ins == code[b][i] IN
            ins.op = "br" /\ prog # <<>> /\ ins.loc <= Len(prog) =>
                LET end == prog[ins.loc] IN
                    end.t = "end" /\ prog[Src!OpenerOf(prog, ins.loc)].t = "while"
                    => \E j \in DOMAIN code[ins.to] :
                          code[ins.to][j].loc = Src!OpenerOf(prog, ins.loc)
=============================================================================
