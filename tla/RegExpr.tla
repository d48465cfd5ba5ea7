--------------------------------- MODULE RegExpr ---------------------------------
(***************************************************************************)
(* The expression translators: Tutorials/1, which prints instructions for  *)
(* a register machine, Tutorials/2 in C and in C++ and the two calculators *)
(* of LectureCode/SDT, which build LLVM code.  bison calls the actions of  *)
(* a grammar from the leaves up, so an input is a postfix sequence of      *)
(* them; parentheses leave everything as it is.  What stands behind the    *)
(* semicolons that end a program is a syntax error or not read, and no     *)
(* action of the grammar is called for it: it is not in an input.          *)
(***************************************************************************)
EXTENDS Integers, Sequences

CONSTANTS
    Tools,          \* which of "t1", "t2c", "t2cpp", "calc", "calc2"
    Regs,           \* registers the input names, of R0 to R7
    Numbers,        \* its constants, and what registers hold at first in "t1"
    WordValues,     \* how many values a word has, 2 ^ w for one of w bits
    Unset,          \* NULL, and the meaning of a register never assigned
    None,           \* there is no statement, or no return
    MaxActions      \* bound: actions of the grammar in an input

AllTools == {"t1", "t2c", "t2cpp", "calc", "calc2"}

Words == 0..(WordValues - 1)
Operand == [kind : {"const", "instr"}, n : Nat]

RegExprAssumption ==
    /\ Tools \subseteq AllTools
    /\ Regs \subseteq 0..7 /\ Regs # {}
    /\ WordValues \in Nat \ {0, 1} /\ MaxActions \in Nat
    /\ Numbers \subseteq Words
    /\ Unset \notin Words /\ Unset \notin Operand

VARIABLES
    tool,
    code,           \* what has been printed, or built
    regCnt,         \* the next register for a result, in "t1"
    regs,           \* the value each register stands for, in Tutorials/2
    lastReg,        \* in "t2cpp"
    sem,            \* the semantic values on bison's stack, of expressions
    program,        \* and the one of what is complete
    file,           \* what is written in the end
    pc,             \* "parse" until it ends
    actions,
    \* The source: what the expressions, the registers and the statement before
    \* the next one mean.
    mean, held, result, first

source == <<mean, held, result, first>>
vars == <<tool, code, regCnt, regs, lastReg, sem, program, file, pc, actions, source>>

Wrap(n) == n % WordValues
\* External: a memory that differs from address to address and is never written.
Memory(a) == Wrap(3 * a + 1)

HasRegs == tool \in {"t1", "t2c", "t2cpp"}
Prints == tool = "t1"
NoFile == [ret |-> None, code |-> << >>]

Init ==
    /\ tool \in Tools
    /\ first \in IF Prints THEN [Regs -> Numbers] ELSE {[r \in Regs |-> Unset]}
    /\ held = first
    /\ code = << >> /\ regCnt = 8
    /\ regs = [r \in Regs |-> Unset] /\ lastReg = 0
    /\ sem = << >> /\ program = Unset /\ mean = << >> /\ result = None
    /\ file = NoFile /\ pc = "parse" /\ actions = 0

Act ==
    /\ pc = "parse" /\ actions < MaxActions
    /\ actions' = actions + 1
    /\ UNCHANGED <<tool, first>>

DropLast(s, n) == SubSeq(s, 1, Len(s) - n)
Arg(n) == sem[Len(sem) - n + 1]
Meant(n) == mean[Len(mean) - n + 1]
\* A value takes the place of the last n.
Reduce(n, value) == sem' = Append(DropLast(sem, n), value)
Means(n, value) == mean' = Append(DropLast(mean, n), value)

-----------------------------------------------------------------------------
\* Building.  An operand is a constant or the result of an instruction.

Const(n) == [kind |-> "const", n |-> n]
Built == [kind |-> "instr", n |-> Len(code')]

Build(op, operands) ==
    code' = Append(code, [op |-> op, args |-> operands])

\* The builder folds arithmetic on constants.
Folded(op, operands) ==
    CASE op = "add" -> Wrap(operands[1].n + operands[2].n)
      [] op = "sub" -> Wrap(operands[1].n - operands[2].n)
      [] op = "neg" -> Wrap(-operands[1].n)

Arithmetic(op, operands) ==
    IF \A i \in DOMAIN operands : operands[i].kind = "const"
    THEN Reduce(Len(operands), Const(Folded(op, operands))) /\ UNCHANGED code
    ELSE Build(op, operands) /\ Reduce(Len(operands), Built)

\* Printing.
Emit(instrs) == code' = code \o instrs
Instr(op, d, a, b) == [op |-> op, d |-> d, a |-> a, b |-> b]

\* A bug: the register is taken to be 0.
Load_uncleared(d, n) == <<Instr("ADDI", d, d, n)>>

Load_immediate(d, n) == <<Instr("ANDI", d, d, 0), Instr("ADDI", d, d, n)>>

Arith(op, d, a, b) == <<Instr(IF op = "add" THEN "ADD" ELSE "SUB", d, a, b)>>
Fetch(d, a) == <<Instr("LDR", d, a, 0)>>
Move(d, a) == <<Instr("ADDI", d, a, 0)>>
Negative(d, a) == <<Instr("NOT", d, a, 0), Instr("ADDI", d, d, 1)>>

NewReg(n) == regCnt' = regCnt + 1 /\ Reduce(n, regCnt)

-----------------------------------------------------------------------------
\* The actions of the grammars.

Immediate ==
    /\ Act
    /\ \E n \in Numbers :
        /\ Means(0, n)
        /\ CASE Prints -> /\ Emit(Load_immediate(regCnt, n))
                          /\ NewReg(0)
             [] tool = "calc2" -> /\ Build("slot", <<Const(n)>>)
                                  /\ Reduce(0, Built) /\ UNCHANGED regCnt
             [] OTHER -> Reduce(0, Const(n)) /\ UNCHANGED <<code, regCnt>>
    /\ UNCHANGED <<regs, lastReg, program, file, pc, held, result>>

Register ==
    /\ Act /\ HasRegs
    /\ \E r \in Regs : Reduce(0, IF Prints THEN r ELSE regs[r]) /\ Means(0, held[r])
    /\ UNCHANGED <<code, regCnt, regs, lastReg, program, file, pc, held, result>>

Operands == <<Arg(2), Arg(1)>>

Binary ==
    /\ Act /\ Len(sem) >= 2
    /\ Prints \/ (Arg(1) # Unset /\ Arg(2) # Unset)
    /\ \E op \in {"add", "sub"} :
        /\ Means(2, Wrap(IF op = "add" THEN Meant(2) + Meant(1) ELSE Meant(2) - Meant(1)))
        /\ IF Prints
           THEN /\ Emit(Arith(op, regCnt, Operands[1], Operands[2]))
                /\ NewReg(2)
           ELSE Arithmetic(op, Operands) /\ UNCHANGED regCnt
    /\ UNCHANGED <<regs, lastReg, program, file, pc, held, result>>

Negate ==
    /\ Act /\ Len(sem) >= 1
    /\ Prints \/ Arg(1) # Unset
    /\ Means(1, Wrap(-Meant(1)))
    /\ IF Prints
       THEN /\ Emit(Negative(regCnt, Arg(1)))
            /\ NewReg(1)
       ELSE Arithmetic("neg", <<Arg(1)>>) /\ UNCHANGED regCnt
    /\ UNCHANGED <<regs, lastReg, program, file, pc, held, result>>

\* "[" expr "]"
Load ==
    /\ Act /\ HasRegs /\ Len(sem) >= 1
    /\ Prints \/ Arg(1) # Unset
    /\ Means(1, Memory(Meant(1)))
    /\ IF Prints
       THEN /\ Emit(Fetch(regCnt, Arg(1)))
            /\ NewReg(1)
       ELSE Build("load", <<Arg(1)>>) /\ Reduce(1, Built) /\ UNCHANGED regCnt
    /\ UNCHANGED <<regs, lastReg, program, file, pc, held, result>>

\* A NULL operand is dereferenced.
Crash ==
    /\ Act /\ ~Prints /\ Len(sem) >= 1
    /\ Arg(1) = Unset \/ (Len(sem) >= 2 /\ Arg(2) = Unset)
    /\ pc' = "crashed"
    /\ UNCHANGED <<code, regCnt, regs, lastReg, sem, program, file, mean, held, result>>

\* REG ASSIGN expr SEMI
Assign ==
    /\ Act /\ HasRegs /\ Len(sem) = 1
    /\ \E r \in Regs :
        /\ held' = [held EXCEPT ![r] = Meant(1)]
        /\ IF Prints
           THEN Emit(Move(r, Arg(1))) /\ UNCHANGED <<regs, lastReg>>
           ELSE /\ regs' = [regs EXCEPT ![r] = Arg(1)]
                /\ lastReg' = IF tool = "t2cpp" THEN r ELSE lastReg
                /\ UNCHANGED code
    /\ program' = Arg(1)
    /\ result' = Meant(1)
    /\ sem' = << >> /\ mean' = << >>
    /\ UNCHANGED <<regCnt, file, pc>>

\* expr NEWLINE
Line ==
    /\ Act /\ ~HasRegs /\ Len(sem) = 1
    /\ program' = Arg(1) /\ result' = Meant(1)
    /\ sem' = << >> /\ mean' = << >>
    /\ UNCHANGED <<code, regCnt, regs, lastReg, file, pc, held>>

\* A bug: what is returned is what the first register stands for.
Returned_first ==
    IF tool = "t2cpp" THEN regs[CHOOSE r \in Regs : \A s \in Regs : r <= s] ELSE program

Returned == IF tool = "t2cpp" THEN regs[lastReg] ELSE program

\* program SEMI, expr_list DONE: the return is built and the module written.
Finish ==
    /\ Act /\ sem = << >> /\ result # None
    /\ file' = IF Prints THEN NoFile ELSE [ret |-> Returned, code |-> code]
    /\ pc' = "accepted"
    /\ UNCHANGED <<code, regCnt, regs, lastReg, sem, program, mean, held, result>>

\* main does not look at what yyparse returns.
WritesOnError == tool \in {"calc", "calc2"}

\* The input goes wrong, or ends.
SyntaxError ==
    /\ pc = "parse"
    /\ file' = IF WritesOnError THEN [ret |-> None, code |-> code] ELSE NoFile
    /\ pc' = "rejected"
    /\ UNCHANGED <<tool, code, regCnt, regs, lastReg, sem, program, actions, source>>

Next ==
    \/ Immediate \/ Register \/ Binary \/ Negate \/ Load \/ Crash
    \/ Assign \/ Line \/ Finish \/ SyntaxError

Spec == Init /\ [][Next]_vars

-----------------------------------------------------------------------------
\* Running what is printed: registers above the input's hold anything at first.

Machine ==
    LET Start == [r \in 0..(7 + MaxActions) |-> IF r \in Regs THEN first[r] ELSE 1]
        Step(m, i) ==
            [m EXCEPT ![i.d] =
                CASE i.op = "ADD" -> Wrap(m[i.a] + m[i.b])
                  [] i.op = "SUB" -> Wrap(m[i.a] - m[i.b])
                  [] i.op = "ADDI" -> Wrap(m[i.a] + i.b)
                  [] i.op = "ANDI" -> 0
                  [] i.op = "NOT" -> Wrap(-m[i.a] - 1)
                  [] i.op = "LDR" -> Memory(m[i.a])]
        After[k \in 0..Len(code)] ==
            IF k = 0 THEN Start ELSE Step(After[k - 1], code[k])
    IN  After[Len(code)]

\* Running what is built.
Value(v, o) == IF o.kind = "const" THEN o.n ELSE v[o.n]

Result(v, i) ==
    LET a == Value(v, i.args[1]) IN
        CASE i.op = "slot" -> a
          [] i.op = "load" -> Memory(a)
          [] i.op = "neg" -> Wrap(-a)
          [] i.op = "add" -> Wrap(a + Value(v, i.args[2]))
          [] i.op = "sub" -> Wrap(a - Value(v, i.args[2]))

Run(built, operand) ==
    LET After[k \in 0..Len(built)] ==
            IF k = 0 THEN << >> ELSE Append(After[k - 1], Result(After[k - 1], built[k]))
    IN  Value(After[Len(built)], operand)

Stands(value, meaning) ==
    IF Prints THEN Machine[value] = meaning
    ELSE IF value = Unset THEN meaning = Unset
    ELSE Run(code, value) = meaning

TypeOK ==
    /\ tool \in Tools
    /\ Len(sem) = Len(mean)
    /\ Prints => \A i \in DOMAIN sem : sem[i] \in Regs \cup 8..(regCnt - 1)
    /\ regCnt \in 8..(8 + MaxActions)
    /\ ~Prints => \A i \in DOMAIN code : \A a \in DOMAIN code[i].args :
                     code[i].args[a].kind = "instr" => code[i].args[a].n < i
    /\ pc \in {"parse", "accepted", "rejected", "crashed"}

\* Run so far, the code leaves in every register what the input has assigned to
\* it, and has in hand the value of every expression that is still open: no
\* result is overwritten before it is used, though a register stands for itself
\* (Tutorials/1/expr.y:55) and values are kept across statements
\* (Tutorials/2/C/expr.y:40).
CodeMeans ==
    /\ \A i \in DOMAIN sem : Stands(sem[i], mean[i])
    /\ HasRegs => \A r \in Regs : Stands(IF Prints THEN r ELSE regs[r], held[r])

\* Registers and instructions refer to what has been computed, and mean it.
CodeSound == TypeOK /\ CodeMeans

\* A program that Tutorials/2 writes is one of the whole input: it returns the
\* value of the last assignment, and nothing only if that was of a register
\* never assigned.  The calculators' program is that or, without a return, one
\* of an input that was rejected (Tutorials/2/C++/expr.y:62,
\* Tutorials/2/C/expr.y:53 and :131, SDT/calc.y:34).
FileAnswers ==
    file # NoFile =>
        \/ pc = "rejected" /\ ~HasRegs /\ file.ret = None
        \/ /\ pc = "accepted"
           /\ IF result = Unset THEN file.ret = Unset
              ELSE file.ret # Unset /\ Run(file.code, file.ret) = result
=============================================================================
