--------------------------------- MODULE MiniC ---------------------------------
(***************************************************************************)
(* The semantic actions of the MiniC grammar (projects/tools/p2/minic.y,   *)
(* and p2cpp/minic.y), in the order the parser runs them: declarations,    *)
(* parameters, function definitions, uses of names and returns, over the   *)
(* symbol table ScopedNames and the one entry block of each LLVM function. *)
(* An expression is the names it reads, one after the other: the rules of  *)
(* its operators build nothing yet, and no statement opens a block of code.*)
(* A syntax error or the end of the input stops the parser between two of  *)
(* these steps: every state may be the last.                               *)
(*                                                                         *)
(* declared, blocks, outside and sound are not in the program: they follow *)
(* the same text by the rules of C, for the properties to compare.         *)
(***************************************************************************)
EXTENDS Integers, Sequences, FiniteSets

CONSTANTS
    Names,        \* identifiers
    NoName,       \* the NULL name of a parameter without declarator
    NoVal,        \* the NULL value
    RetTypes,     \* for each tool the types [base, ptr] of functions
    ParamTypes,   \* and those of parameters
    MaxItems,     \* bound: declarations, parameters, statements and uses
    MaxParams     \* bound: parameters of a function

Tools == {"p2", "p2cpp"}
Types == [base : {"int", "float", "void"}, ptr : BOOLEAN]

ASSUME MiniCAssumption ==
    /\ RetTypes \in [Tools -> SUBSET Types]
    /\ ParamTypes \in [Tools -> SUBSET Types]
    /\ \A t \in RetTypes["p2cpp"] \cup ParamTypes["p2cpp"] : t.base = "int"
    /\ NoName \notin Names
    /\ MaxItems \in Nat /\ MaxParams \in Nat

Vals == 1..MaxItems
ASSUME NoValAssumption == NoVal \notin Nat \ {0}

VARIABLES
    tool,         \* which of the two programs it is
    env, globals, functions, found,   \* the symbol table and the module
    phase,        \* what the parser is in the middle of
    params,       \* the list of parameters, last one first (push_param)
    sig,          \* [name, ret] of the function being entered
    code,         \* the functions built; the Builder is at the end of the last
    value,        \* the value of the expression read last
    init,         \* names read in an initializer whose declaration is to come
    made,         \* allocas and globals made so far, each a number
    items,        \* bound
    declared,     \* the parameters of the last function, as written
    blocks,       \* open compound statements, innermost first
    outside,      \* the global C means by a name
    sound         \* what was read is within C, as far as names and parameters
                  \*   go, and reads and assigns declared variables only

table == <<env, globals, functions, found>>
ghosts == <<declared, blocks, outside, sound>>
vars == <<tool, table, phase, params, sig, code, value, init, made, items, ghosts>>

Tbl == INSTANCE ScopedNames

NoNames == [n \in Names |-> NoVal]
Constant == [kind |-> "constant"]
NoSig == [name |-> NoName, ret |-> NoVal]

Init ==
    /\ tool \in Tools
    /\ Tbl!Init
    /\ phase = "top"
    /\ params = << >> /\ sig = NoSig
    /\ code = << >>
    /\ value = Constant
    /\ init = {}
    /\ made = 0 /\ items = 0
    /\ declared = << >> /\ blocks = << >> /\ outside = NoNames
    /\ sound = TRUE

Item == items < MaxItems /\ items' = items + 1

-----------------------------------------------------------------------------
\* The Builder and what it appends.  Before the first function it is NULL;
\* nothing clears it when a function is finished.

Builder == Len(code)
Emit(insts) == code' = [code EXCEPT ![Builder].insts = @ \o insts]

Alloca(v, n, t) == [op |-> "alloca", val |-> v, name |-> n, type |-> t]
Store(v, i) == [op |-> "store", val |-> v, arg |-> i]
\* name and meant are history: the name read, and what C means by it here.
Load(v, n, m) == [op |-> "load", val |-> v, name |-> n, meant |-> m]
Ret(how, t) == [op |-> "ret", how |-> how, type |-> t]

Int32 == [base |-> "int", ptr |-> FALSE]
Void == [base |-> "void", ptr |-> FALSE]

EndsInRet(insts) == insts # << >> /\ insts[Len(insts)].op = "ret"

Crashes == phase' = "crashed"

is_global_scope == env = << >>

-----------------------------------------------------------------------------
\* The same text by the rules of C.

\* The storage a name stands for here.
Meant(n) ==
    LET in == {j \in DOMAIN blocks : blocks[j].names[n] # NoVal} IN
        IF in = {} THEN outside[n]
        ELSE blocks[CHOOSE j \in in : \A k \in in : j <= k].names[n]

\* A declaration in the innermost block.
Opens(n, v) == blocks' = [blocks EXCEPT ![1].names[n] = v]

\* A statement: no declaration of this block may follow.
Statement(bs) == [bs EXCEPT ![1].decls = FALSE]

\* (void), or parameters that have names and are not void.
NoParameters == <<[name |-> NoName, type |-> Void]>>
InC(list) ==
    list = NoParameters \/ \A i \in DOMAIN list : list[i].name # NoName /\ list[i].type # Void

-----------------------------------------------------------------------------
\* Declarations.

AtTop == phase = "top" /\ params = << >>
Declaring == AtTop \/ (phase = "body" /\ blocks[1].decls)

DeclareGlobal(n) ==
    /\ AtTop
    /\ is_global_scope
    /\ Item
    /\ Tbl!DeclareGlobal(n, made + 1)
    /\ made' = made + 1
    /\ outside' = [outside EXCEPT ![n] = IF @ = NoVal THEN made + 1 ELSE @]
    /\ sound' = (sound /\ n \notin functions)
    /\ init' = {} /\ value' = Constant
    /\ UNCHANGED <<tool, phase, params, sig, code, declared, blocks>>

\* Inside a function, or wherever a scope is open.
DeclareLocal(n) ==
    /\ Declaring
    /\ ~is_global_scope
    /\ Item
    /\ Tbl!Declare(n, made + 1)
    /\ made' = made + 1
    /\ Emit(<<Alloca(made + 1, n, NoVal)>>)
    /\ IF blocks = << >> THEN UNCHANGED blocks ELSE Opens(n, made + 1)
    /\ sound' = (sound /\ n \notin init)
    /\ init' = {} /\ value' = Constant
    /\ UNCHANGED <<tool, phase, params, sig, declared, outside>>

-----------------------------------------------------------------------------
\* Function definitions: the parameter list, the mid-rule action with
\* BuildFunction, the compound statement, the end of the rule.

push_param(head, n, t) == <<[name |-> n, type |-> t]>> \o head

Param(n, t) ==
    /\ phase = "top" /\ init = {}
    /\ Len(params) < MaxParams
    /\ Item
    /\ params' = push_param(params, n, t)
    /\ declared' = IF params = << >> THEN <<[name |-> n, type |-> t]>>
                   ELSE Append(declared, [name |-> n, type |-> t])
    /\ sound' = (sound /\ InC(params'))
    /\ UNCHANGED <<tool, table, phase, sig, code, value, init, made, blocks, outside>>

PushScope(f, t) ==
    /\ phase = "top" /\ init = {}
    /\ Item
    /\ Tbl!Push
    /\ phase' = "building"
    /\ sig' = [name |-> f, ret |-> t]
    /\ declared' = IF params = << >> THEN << >> ELSE declared
    /\ UNCHANGED <<tool, params, code, value, init, made, blocks, outside, sound>>

\* ParamArray is filled from its end, as the list holds the last one first.
ParamArray(list) == [i \in DOMAIN list |-> list[Len(list) + 1 - i].type]

AddFunction ==
    /\ phase = "building"
    /\ Tbl!DefineFunction(sig.name)
    /\ phase' = "storing"
    /\ code' = Append(code, [ret |-> sig.ret, types |-> ParamArray(params), insts |-> << >>])
    /\ blocks' = <<[decls |-> TRUE, names |-> NoNames]>>
    /\ sound' = (sound /\ ~Tbl!Taken(sig.name))
    /\ UNCHANGED <<tool, params, sig, value, init, made, items, declared, outside>>

\* How many parameters are stored, and the list node of the i-th.  p2 goes
\* through the list, p2cpp through an array that it has filled from the end.
Stored == Cardinality({i \in DOMAIN code[Builder].insts :
                          code[Builder].insts[i].op = "store"})
Node(i) == params[Len(params) + 1 - i]

\* A bug: the arguments are taken as they come in p2's list.
Argument_asListed(i) == Len(params) + 1 - i

Argument(i) == i

\* The loop of BuildFunction: alloca, store, symbol_insert.
StoreParam ==
    /\ phase = "storing"
    /\ Stored < Len(params)
    /\ LET i == IF tool = "p2" THEN Len(params) - Stored ELSE Stored + 1
           p == Node(i)
       IN  IF p.name = NoName
           THEN Crashes /\ UNCHANGED <<table, code, made, blocks>>
           ELSE /\ Tbl!Declare(p.name, made + 1)
                /\ made' = made + 1
                /\ Emit(<<Alloca(made + 1, p.name, p.type), Store(made + 1, Argument(i))>>)
                /\ Opens(p.name, made + 1)
                /\ UNCHANGED phase
    /\ UNCHANGED <<tool, params, sig, value, init, items, declared, outside, sound>>

BodyBegins ==
    /\ phase = "storing"
    /\ Stored = Len(params)
    /\ phase' = "body"
    /\ params' = << >>
    /\ UNCHANGED <<tool, table, sig, code, value, init, made, items, ghosts>>

\* What the end of the rule appends, if the last instruction is no return:
\* p2 returns a zero of the type, or void.
Implicit(t) ==
    CASE tool = "p2" -> <<Ret("implicit", t)>>
      [] tool = "p2cpp" /\ ~t.ptr -> <<Ret("implicit", Int32)>>
      [] tool = "p2cpp" /\ t.ptr -> << >>

\* A bug: the scope stays open.
Pop_not == UNCHANGED table

Pop == Tbl!Pop

EndFunction ==
    /\ phase = "body" /\ Len(blocks) = 1 /\ init = {}
    /\ phase' = "top"
    /\ Emit(IF EndsInRet(code[Builder].insts) THEN << >> ELSE Implicit(sig.ret))
    /\ Pop
    /\ blocks' = << >>
    /\ sig' = NoSig
    /\ value' = Constant
    /\ UNCHANGED <<tool, params, init, made, items, declared, outside, sound>>

\* A bug: a compound statement closes the scope of its function.
BlockEnds_pops == Tbl!Pop

\* A compound statement inside another; the symbol table does not hear of it.
BlockEnds == UNCHANGED table

OpenBlock ==
    /\ phase = "body" /\ init = {}
    /\ Item
    /\ blocks' = <<[decls |-> TRUE, names |-> NoNames]>> \o Statement(blocks)
    /\ value' = Constant
    /\ UNCHANGED <<tool, table, phase, params, sig, code, init, made, declared, outside, sound>>

CloseBlock ==
    /\ phase = "body" /\ Len(blocks) > 1 /\ init = {}
    /\ BlockEnds
    /\ blocks' = Tail(blocks)
    /\ value' = Constant
    /\ UNCHANGED <<tool, phase, params, sig, code, init, made, items, declared, outside, sound>>

-----------------------------------------------------------------------------
\* Expressions.

\* primary_expression: ID, and lhs_expression: STAR ID.  p2 loads through
\* whatever it has found.
Reads(n) ==
    /\ Tbl!Find(n)
    /\ CASE found' # NoVal /\ Builder # 0 ->
              /\ Emit(<<Load(found', n, IF is_global_scope THEN found' ELSE Meant(n))>>)
              /\ UNCHANGED phase
         [] found' = NoVal /\ tool = "p2cpp" -> UNCHANGED <<code, phase>>
         [] OTHER -> Crashes /\ UNCHANGED code

ReadValue == IF found' # NoVal THEN [kind |-> "load", of |-> found'] ELSE [kind |-> "garbage"]

\* A name in the initializer of a declaration, global or local.
Initializer(n) ==
    /\ Declaring
    /\ Item
    /\ Reads(n)
    /\ init' = init \cup {n}
    /\ sound' = (sound /\ phase = "body" /\ Meant(n) # NoVal)
    /\ UNCHANGED <<tool, params, sig, value, made, declared, blocks, outside>>

Mentions(n) ==
    /\ phase = "body" /\ init = {}
    /\ Item
    /\ Reads(n)
    /\ blocks' = Statement(blocks)
    /\ sound' = (sound /\ Meant(n) # NoVal)
    /\ UNCHANGED <<tool, params, sig, init, made, declared, outside>>

\* A name that an expression of a statement begins with, whatever parentheses
\* or casts are before it.
Use(n) == Mentions(n) /\ value' = ReadValue

\* A name behind an operator.  The operator's rule is empty: its value is that
\* of its first symbol, the left operand.
Operand(n) == Mentions(n) /\ UNCHANGED value

\* An expression that begins with a constant, or with an operator whose rule
\* is empty: its value is what the scanner left with the first token.
Literal ==
    /\ phase = "body" /\ init = {}
    /\ value # Constant
    /\ value' = Constant
    /\ blocks' = Statement(blocks)
    /\ UNCHANGED <<tool, table, phase, params, sig, code, init, made, items, declared, outside, sound>>

\* lhs_expression: ID.  The assignment itself builds nothing; its value is
\* that of its first symbol, the address.
Assign(n) ==
    /\ phase = "body" /\ init = {}
    /\ Item
    /\ Tbl!Find(n)
    /\ value' = CASE found' # NoVal -> [kind |-> "address", of |-> found']
                  [] tool = "p2" -> [kind |-> "null"]
                  [] OTHER -> [kind |-> "garbage"]
    /\ blocks' = Statement(blocks)
    /\ sound' = (sound /\ Meant(n) # NoVal)
    /\ UNCHANGED <<tool, phase, params, sig, code, init, made, declared, outside>>

Return ==
    /\ phase = "body" /\ init = {}
    /\ Item
    /\ Emit(<<Ret("written", Void)>>)
    /\ blocks' = Statement(blocks)
    /\ value' = Constant
    /\ UNCHANGED <<tool, table, phase, params, sig, init, made, declared, outside, sound>>

\* p2 builds nothing for it.  p2cpp returns the value, whatever it is: that
\* of a constant or of an unknown name are bytes of another member of the
\* union, which may be NULL (CreateRet then makes a ret void) or no Value.
ReturnExpr ==
    /\ phase = "body" /\ init = {}
    /\ Item
    /\ IF tool = "p2" THEN UNCHANGED <<code, phase>>
       ELSE \/ /\ value.kind \in {"load", "address"}
               /\ Emit(<<Ret("value", NoVal)>>) /\ UNCHANGED phase
            \/ /\ value.kind = "constant"
               /\ Emit(<<Ret("written", Void)>>) /\ UNCHANGED phase
            \/ /\ value.kind \in {"constant", "garbage"}
               /\ Crashes /\ UNCHANGED code
    /\ blocks' = Statement(blocks)
    /\ value' = Constant
    /\ UNCHANGED <<tool, table, params, sig, init, made, declared, outside, sound>>

-----------------------------------------------------------------------------

Next ==
    \/ \E n \in Names : DeclareGlobal(n) \/ DeclareLocal(n)
    \/ \E n \in Names \cup {NoName}, t \in ParamTypes[tool] : Param(n, t)
    \/ \E f \in Names, t \in RetTypes[tool] : PushScope(f, t)
    \/ AddFunction \/ StoreParam \/ BodyBegins \/ EndFunction
    \/ OpenBlock \/ CloseBlock
    \/ \E n \in Names : Initializer(n) \/ Use(n) \/ Operand(n) \/ Assign(n)
    \/ Literal
    \/ Return \/ ReturnExpr

Spec == Init /\ [][Next]_vars

-----------------------------------------------------------------------------
\* Properties.

InstOK(c, f) ==
    \/ c.op = "alloca" /\ c.val \in Vals /\ c.name \in Names
    \/ c.op = "store" /\ c.val \in Vals /\ c.arg \in DOMAIN f.types
    \/ c.op = "load" /\ c.val \in Vals
    \/ c.op = "ret" /\ c.how \in {"implicit", "written", "value"}

TypeOK ==
    /\ tool \in Tools
    /\ env \in Seq([Names -> SUBSET Vals]) /\ Len(env) <= 1
    /\ globals \in [Names -> Vals \cup {NoVal}] /\ functions \subseteq Names
    /\ phase \in {"top", "building", "storing", "body", "crashed"}
    /\ Len(params) <= MaxParams
    /\ \A k \in DOMAIN code : \A i \in DOMAIN code[k].insts : InstOK(code[k].insts[i], code[k])
    /\ init \subseteq Names
    /\ made <= items /\ items <= MaxItems
    /\ phase # "crashed" => (env = << >> <=> phase = "top")

Finished(k) == k < Builder \/ blocks = << >>

\* The declarations of n, parameter or local, in the instructions of a function.
Declarations(insts, n) == {j \in DOMAIN insts : insts[j].op = "alloca" /\ insts[j].name = n}

\* Names stand for what C means by them: through parameters, globals, locals
\* that hide them, functions that come and go, a load reads the storage of the
\* declaration in force.  The table has one scope per function, so that there
\* are two exceptions: a name declared more than once in the function, where
\* the load reads the storage of one of these, and a global that an inner block
\* has hidden, which stays hidden when the block is over.
MeansC ==
    sound => \A k \in DOMAIN code : \A i \in DOMAIN code[k].insts :
        LET c == code[k].insts[i]
            earlier == Declarations(code[k].insts, c.name) \cap 1..i-1
        IN  c.op = "load" =>
                \/ c.val = c.meant
                \/ \E j \in earlier : /\ code[k].insts[j].val = c.val
                                      /\ earlier # {j} \/ c.meant = outside[c.name]

\* Whatever way a list of parameters is turned round, the function has their
\* types in the order they were written in, and the i-th name is the storage
\* in which the i-th argument is.
FunctionsAsDeclared ==
    phase = "body" =>
        /\ Len(code[Builder].types) = Len(declared)
        /\ \A i \in DOMAIN declared :
              /\ code[Builder].types[i] = declared[i].type
              /\ \E j \in DOMAIN code[Builder].insts :
                    LET a == code[Builder].insts[j]  st == code[Builder].insts[j + 1] IN
                        /\ a.op = "alloca" /\ a.type = declared[i].type /\ a.name = declared[i].name
                        /\ st = Store(a.val, i)
                        /\ Declarations(code[Builder].insts, a.name) = {j} => env[1][a.name] = {a.val}

\* A program within C that uses the names of declared variables stops the tool
\* in two places only: p2 at the parameters (void), which it takes for one
\* without a name, and p2cpp at the return of an expression that begins with a
\* constant or with an operator whose rule is empty, which may be no Value.
AcceptsC ==
    [][sound' /\ phase # "crashed" /\ phase' = "crashed" =>
          \/ phase = "storing" /\ declared = NoParameters
          \/ ReturnExpr /\ tool = "p2cpp" /\ value = Constant]_vars

\* A finished function ends in a return, an implicit one of its own type and
\* only where there is no other (p2cpp: unless it returns a pointer).
Terminated ==
    sound => \A k \in DOMAIN code : LET fn == code[k] IN
        /\ Finished(k) /\ (tool = "p2" \/ ~fn.ret.ptr) => EndsInRet(fn.insts)
        /\ \A i \in DOMAIN fn.insts : fn.insts[i].op = "ret" /\ fn.insts[i].how = "implicit" =>
              /\ fn.insts[i].type = fn.ret
              /\ ~EndsInRet(SubSeq(fn.insts, 1, i - 1))

\* Functions, finished or not, are what their text says.
FunctionsSound == TypeOK /\ FunctionsAsDeclared /\ Terminated

\* Nothing after the end of a function, a global or the next function, adds to
\* it, although the Builder still stands there.
FinishedStays ==
    [][sound' => \A k \in DOMAIN code : Finished(k) => code'[k] = code[k]]_vars
=============================================================================
