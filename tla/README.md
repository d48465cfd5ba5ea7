# Formal models of the ECE 466/566 compiler tools

TLA+ models, TLC runs and TLAPS proofs for the tools and libraries of this
repository: the dead code elimination tutorials, the MiniC front end, the
optimizer drivers, the small code generators, the checked-in scanners and parser,
and the analysis wrappers. Everything is translated from the sources; the line of
every modelled definition is in `PROJECT.json` under `map`.

## 1. The system

The repository is a compiler course. Its programs are single-threaded command
line tools on top of LLVM; none keeps anything on disk but the files it writes.
What is hard in them is therefore not concurrency but order, aliasing and stale
state: values queued before they are freed, results that must not depend on heap
addresses, caches that outlive what they describe, buffers that are moved and
grown in the middle of a token, a parser that pushes and pops global state, files
with the same name, and exit paths that leave half of the work behind.

| Component | Where | State | What makes it correct | Modules |
|---|---|---|---|---|
| DCE tool, C | `Tutorials/5/C/dce.c` | the module, a worklist, `DCE_count` | no freed instruction is touched, nothing used or live is erased, nothing dead is left, the result does not depend on addresses | `IR`, `DeadCode`, `DCEWorklist` |
| DCE tool, C++ | `Tutorials/5/C++/dce.cpp` | the same per function, the output opened first | the same result as the C tool; no partial output | `DCECpp` |
| Worklist library | `Tutorials/5/C/worklist.cpp`, `projects/lib/utils/worklist.cpp` | a `std::set<Value*>` | once in, once out, lowest address first | in `DCEWorklist`, `CFGIter` |
| MiniC symbol table | `projects/tools/p2{,cpp}/symbol.*`, `uthash.h` | a stack of scopes, each a chained hash table | a lookup gives the innermost declaration whatever the hash function and the growth of the table | `ScopedNames`, `UtHash`, `SymbolTable` |
| MiniC parser actions, parameter list | `projects/tools/p2{,cpp}/minic.y`, `list.*` | module, Builder, scopes, list of parameters | names resolve to what C means, functions are as declared and end in a return, a program within C crashes the tool in two named places only | `MiniC` |
| MiniC driver | `main.*`, `cmdline.lex`, `yywrap` | argument cursor, input files, `yyin`, `num_errors` | every input is read once, errors reach the exit status | `MiniCDriver` |
| Command line input | `myinput` in `cmdline.lex` | argument, offset, the scanner's buffer | arguments come out as words | `CmdInput` |
| MiniC scanner | `projects/tools/p2{,cpp}/minic.lex` | start condition, `line_num` | comments hide what they should, lines are counted | `MiniCLex` |
| Optimizer drivers | `projects/tools/p3*`, `p4`, `Tutorials/5` | module, output, statistics, options | an unverified module is never written, no output is left half done, the input survives | `OptDriver` |
| CFG iterators, loop wrappers | `projects/lib/analysis/cfg.cpp`, `loop.cpp` | a cursor held by the client, a worklist | every element once, and the walk ends | `FlowGraph`, `CFGIter` |
| Dominance cache | `projects/lib/analysis/dominance.cpp` | `Current`, `DT`, `PDT`, `LI` | the answer is about the function asked about, as it is now | `FlowGraph`, `Dominance` |
| Structured code generators | `Tutorials/3/{C,C++}/expr.y` | variable map, Builder, open statements | the control flow graph runs the program that was written | `SourceProgram`, `Structured` |
| Expression translators | `Tutorials/1`, `Tutorials/2`, `LectureCode/SDT` | registers, next register | every value is what the input says when it is read | `RegExpr` |
| Calculator | `LectureCode/Parser/calc.y(.c)` | parser stacks, lookahead | each line is answered, errors are seen at once | `Calc` |
| Lecture scanners | `LectureCode/Parser/calc.lex.c`, `LectureCode/Lexer/words.c` | the buffer and the automaton's state | tokens do not depend on how the file is cut into reads | `Scanner`, `FlexTables`, `LectureScanners` |
| Statistics | `projects/lib/analysis/summary.*` | counters | | the file only, in `OptDriver` |
| Value map, CSE and p1 skeletons, module builders, lecture examples, `simple/`, wolfbench, installer | | | | section 7 |

The parts interact by plain calls. The DCE tools call LLVM's use lists and the
worklist. `main` of p2 gives its arguments to the command line scanner, which
reads them through `myinput`; the MiniC scanner asks `yywrap` for the next file;
the parser calls the symbol table, the parameter list and the Builder; and `main`
decides from `num_errors` what to do with the module. The analysis wrappers sit
between passes and LLVM's analyses and keep a cache of them.

LLVM, flex, bison and the C library are outside: definitions that stand for them
are marked external in `PROJECT.json` and say what the code relies on.

## 2. What is modelled

### IR, DeadCode: what dead code elimination means

`IR` describes the part of a module the passes read: for each instruction its
operands that are instructions, its opcode class (always removable, load,
volatile load, never removable), its heap address, its function, and whether the
verifier accepts the rest of the module (reading bitcode does not verify it).
`isDead` is the function of that name. `Live(m)` is the largest set of
instructions each of which must be kept or is used by a member; `Needed(m)` is
what the instructions with effects need, directly or not. The two agree unless
values depend on themselves through a phi (theorem `AcyclicLiveNeeded`); with a
dead phi cycle `Live` is larger, and that is what the tools keep.

`DeadCode` is the abstract specification: reject the input untouched, or erase
one dead instruction at a time and be done only when there is none.

### DCEWorklist, DCECpp: the two tools

`pc` follows `main`: `args`, `read`, `scan`, `drain`, `verify`, then `rejected` or
`finished`. One step is one round of a loop.

| Action | Code |
|---|---|
| `CheckArgs`, `ReadFails`, `ReadModule` | `main`, up to the call of the pass. Too few arguments exit with 0, an unreadable input with 1 |
| `Scan`, `ScanDone` | the three nested scan loops, which queue what is dead |
| `Pop` | one round of the while loop: take the lowest address, test again, then `EraseTop` (queue operands, count, erase) or `SkipTop` |
| `DrainDone`, `Write` | leave the loop; verify; write only a verified module |

`DCECpp` is the same pass with the worklist filled from one function at a time
and drained before the next, and with the output file opened before the input is
read; `Out` is the state of that file. Both implement `DeadCode`.

### ScopedNames, UtHash, SymbolTable: scopes as chained hash tables

`ScopedNames` is what a symbol table promises: `env` is the stack of open scopes,
each a function from names to the set of its declarations, and `Find` gives some
declaration of the innermost scope that has one, or else the global, or else
nothing. "Some" matters only for a name that is declared twice in one scope, which
`minic.y` does not reject.

`UtHash` holds the macros of `uthash.h` that `symbol.c` expands, as operators on
a table: `NewTable`, `Add` (which doubles when a chain is too long, and gives up
after two doublings that did not help: `noexpand`), `Matches` and `First`. A chain
is the set of its items, each with a position that decreases along the chain;
adding at the head takes a larger position than all others, and a doubling, which
moves the items one by one and so reverses each chain, negates the positions. The
hash function is any function from names to numbers.

`SymbolTable` is `symbol.c` over such tables, and what the declaration rules and
`BuildFunction` put into the module. The grammar opens one scope per function; the
table is modelled for any depth.

### MiniC: the semantic actions of the grammar

One module for p2 and p2cpp, over `ScopedNames` as the symbol table. The
environment writes the text: each action is what bison runs when a piece of it
has been read.

| Action | Code (`minic.y`) |
|---|---|
| `DeclareGlobal`, `DeclareLocal` | `declaration`, by `is_global_scope` |
| `Param`, `PushScope`, `AddFunction`, `StoreParam`, `BodyBegins` | `param_list`, the mid-rule action of a function definition, `BuildFunction` and its loop over the parameters, which p2 goes through from the end and p2cpp through an array that it has filled from the end |
| `EndFunction` | the end of the rule: an implicit return, `symbol_pop_scope` |
| `OpenBlock`, `CloseBlock` | a compound statement inside another: no scope is opened |
| `Initializer`, `Use`, `Operand`, `Assign`, `Literal` | the rules that look names up. Operators build nothing yet: the value of an expression with one is that of its first symbol |
| `Return`, `ReturnExpr` | `return_stmt` |

`declared`, `blocks`, `outside` and `sound`, and the name and the meaning a load
carries, are history: they follow the same text by the rules of C. `sound` says
that the text is within C, as far as names and parameters go, and reads and assigns
declared variables only. It leaves in `(void)`, and the return of any expression,
which are C and which a tool may crash at: `AcceptsC` names both. `MeansC` compares
each load with what C means by its name. The table has one scope for a function and
C one for each block, so the property has two exceptions, each bound to a
declaration of that name in that function: a name declared more than once before
the load, and a global whose name a block that is over has declared.

### MiniCDriver, CmdInput, MiniCLex: everything around the parser

`MiniCDriver` is `main`, `cmdline.lex` and `yywrap` of both tools; a file is a
sequence of external declarations, each good or the one the parser or the scanner
stumbles over. `Cmdlex` is one word of the command line; `NoInput`, `Prepare`,
`FirstFile` are `main` up to the parser; `Declaration`, `SyntaxError`,
`LexicalError` (which exits) the parser; `NextFile`, `LastFile` are `yywrap`;
`EmptyInput` the complaint about no declaration at all; `Write`, `WriteFails` the
end of `main`. `seen` is history: what went wrong, whether or not the program
keeps track.

`CmdInput` is below it: `myinput` hands the scanner of the command line one
argument and a blank at a time, as much as there is room for, and flex refills and
doubles its buffer. `MiniCLex` is beside it: the rules of `minic.lex` over the
files of a run, with the start condition for comments and `line_num`, neither of
which `yywrap` touches. A newline is a line feed or a carriage return to the rule
that counts lines, but only a line feed inside of a comment: a CRLF file counts
twice what is outside of comments. What a comment is, is defined apart from the automaton and
compared with what it hands to the parser.

### OptDriver: the mains of the optimizers

`main` of p3, p3cpp, p4 and of the two tools of Tutorials/5, over a file system
in which files may be missing, empty, no module, invalid or locked, and in which the
input, the output and the statistics may be one file. An empty file is no bitcode
to the C tools, but to `parseIRFile`, which p3cpp, p4 and the C++ tool of
Tutorials/5 read with, it is a text without definitions: an empty module. The C tools open their
output to write it; the others create a `ToolOutputFile` first, which is removed
at any exit unless it is kept. Passes are names.

### FlowGraph, CFGIter, Dominance: the analysis library

`FlowGraph` says what dominance, loops and nesting are, by paths. `CFGIter` is a
client that goes over the successors or predecessors of a block, over the
top-level loops, or over the blocks or exits of a loop through a worklist, and may
redirect edges on the way. `Dominance` is the cache of trees in globals, each
query on it, and passes that ask, walk over the children of a block and change
their functions.

### SourceProgram, Structured: Tutorials/3

`SourceProgram` executes a program statement by statement. `Structured` first
generates code for it as the actions of `expr.y` do (one action per rule and
mid-rule action, with the stack of open statements), then executes the basic
blocks. It implements `SourceProgram` for the statements a tool translates.

### RegExpr, Calc, Scanner: expressions, and generated code as it is checked in

`RegExpr` has the actions of the five translators, called in postfix order, and
a machine that runs what they emit; `Expressions` gives its state names that can
stand beside those of `Structured`, and `Calculator` does so for `Calc`. `Calc`
is `yyparse` as bison made it: its tables, its stacks and their doubling, the
default reductions, with a reference that computes what a line means from the
precedences in `calc.y`. An int is any two's complement range (`IntMax`).
`Scanner` is `yylex` as flex made it: the buffer that ends in two NULs, moving,
growing, refilling, finding the state again; the reference is the longest match on
the whole text. The tables and the rules of both scanners are in `FlexTables`;
`LectureScanners` puts the two together and gives the state the names `yylex` has
for it.

## 3. The runs

| Run | Instance | Shows |
|---|---|---|
| `dce_c` | all graphs of 3 instructions, 2 address orders | every property of `DCEWorklist`, and that it implements `DeadCode`, liveness included |
| `dce_cpp` | 3 functions, one of them a declaration | every property of `DCECpp`, and that it implements `DeadCode` |
| `symbols` | 3 names, 4 hash functions, 2 nested scopes, 4 declarations, a chain of 3 doubles | `SymbolTable` implements `ScopedNames`; no item is lost; the latest declaration is found until the table doubles |
| `minic` | texts of 6 items over 3 names, 2 parameters, both tools | loads read what C means, up to the one scope of a function (`MeansC`), functions are as declared and end in a return (`FunctionsSound`), within C the tools crash in two places only (`AcceptsC`), finished functions stay (`FinishedStays`) |
| `minic_driver` | the driver, `CmdInput` and `MiniCLex` side by side | the command line means what it says, exactly the file that is read is open, declarations in order, what is in the files at the end, words and tokens right, everything ends |
| `minic_errors` | the same | a violation: a syntax error is not reported in the exit status |
| `optimizer` | `OptDriver`, `Dominance` and `CFGIter` side by side | outputs whole or absent, the input kept, answers of the cache right where a client may rely on them, walks meet each element once and end exactly if none is listed twice |
| `structured` | programs of 8 tokens, 2 variables, integers modulo 3, both tools | the control flow graph is whole, and running it is running the program |
| `structured_loop` | the same with 7 tokens | a violation: the C++ tool's while does not loop |
| `scanner` | texts of up to 4 bytes, both scanners, buffers of 1, 2 and 4, reads of 2 | tokens are those of the rules, no byte is lost, the end is found |
| `calc` | inputs of 7 tokens, int of 3 bits, stacks 3, 6, 8 | each line is answered at once and rightly, the first wrong token is complained of, stacks hold |
| `reg_expr` | inputs of 6 actions, 2 registers, 2 constants, words of 3 bits, five tools | what is emitted computes what the input says |

`MCMiniCDriver` and `MCOptimizer` each put three small systems side by side: the
variable `part` chooses one at the start and the others rest in one state. They do
not interact except as the text above says, so a product would only multiply. The
two that go with the driver are instances in `FrontEnd`, those that go with the
optimizers in `Analyses`; the proofs extend the same modules.

### Bounds, and why they are enough

* DCE. Three instructions give each situation of the drain loop: an operand
  popped before its second user is erased and queued again after, a lower or a
  higher address than its user, an operand that must be kept, a cycle, two users.
  Program order only decides when an instruction is inserted in a set, so two
  address orders over all graphs cover all pairings. `load` behaves as `pure` and
  `volatileLoad` as `other` outside `isDead`'s switch, so a graph takes its kinds
  from one of the two pairs.
* Symbol table. With the threshold of 10 and the 32 buckets of the source nothing
  would double in a small instance, so both are constants. A threshold of 3 lets a
  redeclaration stand in a chain before the table doubles, which
  `LatestUntilGrowth` needs to say anything. Names that collide under every mask
  and names that part at a doubling are among the hash functions. That nothing is
  lost after many doublings and with `noexpand` is proved, not run.
* MiniC. Six items hold two functions with a parameter, a local and its use, or a
  global, a function with two parameters and a block in its body. Names are
  symmetric. p2 has the return types void and int*, the parameter types int and
  void; p2cpp int and int*: a terminator is special for void and for pointers,
  `(void)` is the one parameter without a name that C has, and two parameter types
  show an exchange. `MeansC`, `AcceptsC`,
  `FinishedStays` and `FunctionsSound` are proved without these bounds.
* Driver. All command lines of three tokens: an option after `-o`, two `-o`, an
  `-o` at the end, the default output named as an input. Six longer ones have two
  names after one `-o` and three or four inputs, so that a missing file is first,
  in the middle or last. Two declarations in a file tell a file read twice from one
  read in part. `f` and `g` are alike, so `g` is named only behind `f`.
* CmdInput. Two arguments of at most four bytes for reads of three: shorter than,
  as long as and longer than a read. The letter at a place is fixed, as only places
  must be told apart. Eight reads reach the state in which an argument is handed
  out again; `Ends` names the arguments for which that goes on for ever.
* MiniCLex. Six characters in at most three files: a comment with stars around a
  letter and a token on either side, and one that two files share.
* Dominance and CFGIter. Two functions and two changes make a cache stale and
  fresh again; a diamond, a loop, two nested loops with an exit on the way and a
  block that cannot be reached are all the shapes the queries tell apart. The walks
  go over every graph of three blocks with up to three successors (two from the
  others), parallel edges included, and some of four with two loops.
* OptDriver. Two files, one named like the statistics of the other: every way in
  which input, output and statistics can coincide.
* Structured. Eight tokens hold an assignment before, in and after nested
  statements and a return. With the modulus 3 a negation, a sum and a product
  differ. The while of the C++ tool needs seven.
* Scanner. Texts longer than the buffers of one and two, and as long as that of four,
  with reads of two put the end of a token before, at and behind every edge, and let
  a token fill a buffer twice. That the same holds for every text, buffer and read
  is proved; that the end is found is not.
* Calc. Seven parentheses exhaust a stack that starts at 3, doubles to 6 and is
  capped at 8. In three bits 2 * 2 is the least int, which -1 then divides.
* RegExpr. Six actions hold two statements, so that a register is read after it
  has been assigned again, and between two reads of one expression; sums of 6 and
  1 overflow three bits.

Deadlock is not checked because the tools end.

### Fairness

The programs are sequential and nothing suspends them: a tool takes a step as long
as it can, `WF_vars(Next)`, in the DCE tools, the driver, `CmdInput`, `MiniCLex`,
`Scanner` and `Calc`. In `CFGIter` only the client's next step is fair: its loop
body need not redirect an edge. `SymbolTable`, `MiniC`, `Dominance`, `OptDriver`,
`RegExpr` and `Structured` state no fairness: their callers need not call them, or
nothing is claimed of their end.

Each property has a mutated form of a definition that breaks it (`PROJECT.json`,
`mutants`); the mutated forms stand next to the definition they replace.

## 4. What was found

Two runs end in a violation, each of something the repository says of itself.

* `minic_errors` (`FailureReported`). "Return an error status if it failed" stands
  above the end of `main` in `p2/main.c`, and `num_errors` decides it. But nothing
  increments `num_errors`: `yyerror` only prints, and what `yyparse` returns is
  ignored. After a syntax error both tools write the part of the module that was
  built before it and exit with EXIT_SUCCESS.
* `structured_loop` (`LoopsBack`). In the C++ tool of Tutorials/3 the end of a
  while body branches to the exit block, so the body runs at most once; the C tool
  branches back to the condition.

Other behaviour is named as an exception where a property needs one, so that the
property says exactly when the code does what one expects.

* Tutorials/3: a variable gets its stack slot where it is first assigned. If that
  is inside an if or a while that is not taken, a later use reads a slot that does
  not exist (`FirstAtTop` in `Structured`); the C tool drops the second operand of
  `*` and `/` (`Translated`).
* Dominance: after a pass has changed its function the trees are the old ones,
  until another function has been asked about; and `LLVMGetLoopNestingDepth` gives
  depth 0 in every function but the first that was ever asked about.
* CFG iterators: a block that is twice a successor (a conditional branch with one
  target, a switch with a shared case) sends the walk back, and a loop over the
  successors does not end (`EndsIfDistinct`).
* p2cpp: a function that returns a pointer gets no implicit return, and may end
  without a terminator (`Terminated`).
* p2 and p2cpp: an operator's rule is empty, so the value of an expression is that
  of its first symbol: in p2cpp `return 1 + a`, and `return 1` too, returns bytes of
  another member of the union: a `ret void`, or a crash. p2 takes `(void)` for a
  parameter without a name and crashes at it. `AcceptsC` has these two exceptions
  and no other.
* A name that is declared in a block is in the scope of its function: it is found
  after the block, instead of what it hid. Of two declarations in one scope the
  later is found until the scope's table doubles, and then the earlier
  (the exceptions of `MeansC`, `LatestUntilGrowth`).
* An argument as long as the command line scanner's reads is handed out twice and
  then ends the input, or is handed out for ever if it has a blank in it.
* A comment may begin in one file and end in the next, and an error there is
  reported at a line counted from the first file. Lines that end in CRLF count twice
  outside of comments (`LineCounted`). In p2cpp's `minic.lex` the second
  rule for `switch` (line 99) can never match: line 93 is earlier.
* p2cpp, p3cpp, p4 and the C++ tool of Tutorials/5 empty their output before they
  read: an input that is also the output is lost. The last three then read an empty
  module, write that and exit with 0 (`Input`, `Emptied` in `OptDriver`). p2cpp leaves an empty output
  behind after a lexical error, because `exit` runs no destructor.
* Dead phi cycles survive both DCE tools: the result is `Live`, not `Needed`.

## 5. The proofs

Proved for every value of the constants:

| Module | Theorems | Assumes |
|---|---|---|
| `DeadCodeProofs` | `AcyclicLiveNeeded`; `DoneKeepsLive`: erasing in any order ends with `Live` | `IRAssumption` |
| `DCEWorklistProofs` | `TypeOK`, `ErasesSafely`, `OutputRight`, `DrainProgresses`, refinement of `DeadCode` | `IRAssumption`: distinct addresses, functions in program order, operands within their function |
| `DCECppProofs` | `TypeOK`, `DrainsInTurn`, `OutputRight`, refinement | the same |
| `SymbolTableProofs` | `TypeOK`, `TablesSound`, `LatestUntilGrowth`, refinement of `ScopedNames` | `UtHashAssumption`, `SymbolTableAssumption` |
| `MiniCDriverProofs` | `TypeOK`, `CmdlineMeaning`, `HandlesSound`, `ReadInOrder`, `FilesWhole`; `WordsSound`; `LexSound`; `TokensRight`, `BufferSound` | `DriverAssumption`; `CmdInputAssumption`; `MiniCLexAssumption`; `ScannerAssumption` (bytes are classes of the tables, sizes are positive) |
| `MiniCProofs` | `MeansC`, `AcceptsC`, `FinishedStays`, `FunctionsSound` | `MiniCAssumption` (the types of p2cpp are ints), `NoValAssumption` |
| `OptimizerProofs` | `TypeOK`, `OriginalKept`, `OutputSound`; `TreesSound`; `WalksSound`, `EndsOverDistinct` | `OptDriverAssumption`; `DominanceAssumption`; `CFGIterAssumption` |
| `StructuredProofs` | `FunctionSound`, refinement of `SourceProgram` (`RunsAsWritten`); `CodeSound`, `FileAnswers`; `StacksSound`, `RejectsAtOnce` | `SourceAssumption`; `RegExprAssumption`; `CalcAssumption` (NUMBERs are ints, sizes are positive) |

**Dead code.** One inductive invariant `IInv` for each tool: the worklist holds
only instructions that are present (of the current function, for C++); every dead
instruction is in the worklist or has not been scanned; operands of present
instructions are present; `Live(module)` is contained in what is present; what has
been written is what is present. The first part cannot be proved alone: a popped
instruction's operands are put back, and that they are still present is the third
part. When the worklist is empty the second part says that nothing is dead, and a
set that contains `Live` and has nothing dead in it is `Live` (`NoneDeadIsLive`).
The refinement uses the same invariant: an erasing `Pop` is `Erase`, leaving the
loop is `Finish`, everything else is a stutter.

**Symbol table.** The invariant says of each scope's table (`TableInv`): its
shape; every item is in the bucket its name hashes to; `num_items` counts the
items; positions within a chain are distinct; before the first doubling, later
items have larger positions. That a lookup implements `Find` needs the first two:
all items of a name are in the one chain that is searched. The others make "first"
mean something, still after positions have been negated, which is why they are
stated of positions up to their sign. `AddInv` carries the invariant over an
insertion from `InsertInv` and `ExpandInv`; a doubled table has the same
declarations because `Items` is the same up to sign.

**Driver.** `IInv` has the parts `Types`; `Fresh` (nothing is open before the first
`yywrap`); `Handles` (the file that is open is the one that is read, or none after
a failed fopen); `Disk` (only the output can have changed, and how); `Ordered` and
`Covered` (the declarations in the module are those of the files read, in order);
`Complete` (what a run that has met no error has read when it writes);
`Understood` (the words seen so far mean what `CmdlineMeaning` says of all of
them), which carries the meaning of the command line over the argument cursor.

**Command line input.** `WInv` adds to the types what has been matched: a text
whose tokens are the words so far and the one that may still go on. While no run
of blanks takes the room of a read, `Where` says which text it can be: the
arguments so far, each with its blank (`Clean`); those before the first long one
and its first bytes (`Once`), or those twice (`Twice`), when they are all blank or
all not; and when they are not, any number of times, with a token shorter than
they are (`Ever`). How much room a read has depends on the length of the token
that is kept, so each case needs it: `NoRoomful` bounds it between arguments,
`RunUnique` (a text has one last token) gives it behind the first bytes. `End` is
reached from `Clean` or `Twice` alone, which are the two cases of `WordsRight`.
The doubling of the buffer is a recursive function without a least value; that it
has a solution is proved downwards from the first size that is enough
(`GrowExists`).

**Scanner of MiniC.** `LexInv` says what the start condition knows (`Agrees`): in
`INITIAL`, the code that is not read is the code of the text that begins at the
next character; in `comment`, of the text that begins behind the next star and
slash. Both are values of the recursive function `CodeFrom`, the definition of
`Code`; that it has a solution and where it leads follows by induction from the
end of the text. `Tally` relates the tokens so far to the places where one begins,
and `Whole` (no name is cut in two) is why a place is counted once. A rule reads
past several characters at once, so each step has a lemma of its own on what it
reads: `OverCode`, `OverComment`, `Opening`, `Closing`.

**Lecture scanners.** `Scanning` is `Running` and `Progress`. `Running` is about the
engine: `Typed`; `BufferBytes`: the buffer holds the last bytes that were read and a
NUL behind them, but for the one byte that `yy_hold_char` keeps while the text is a
C string; `Engine`, what the automaton knows at each place of `yylex`: the bytes
since the token began may be a token or its beginning (`Begun`), and the state is
that of so many bytes (`StateAfter`), unless the NUL behind the buffer has just been
matched. Which states those are is read off the tables (`CalcSteps`, `WordsSteps`,
`States`, `Onward`, `Ends`): `Trans` follows default states by recursion, and each
lemma goes down one chain of them. That the automaton stops after the longest match of
the first rule is `TokenRule`; that the state is found again after the bytes have
been moved is `PreviousState`. `Progress` relates the tokens so far to the place in
the input where the one that is looked for begins (`TokenStart`): they and those from
there on are the tokens of the input (`Given`), their text is the input up to there
(`Consumed`), and the size of the buffer is one of those it may have at first or at
most twice the length of a token and one (`Roomy`). Every step leaves `TokenStart`
where it is, gives the token that begins there, or stops at the end (`Moves`), and
`Progress` follows from that alone. `BufferSound` needs `Progress` too, as what is
lost in the buffer is missing from the tokens.

**Parser actions.** `IInv` has `Typed`; `Phases`: one scope is open exactly from
the beginning of a function to its end; `Known`: the scope holds every storage an
open block has for a name, and nothing that is not an alloca of that name in the
function being built; `Agree`: within C the module's globals are C's, the parameters
are `(void)` or have names, and the value of an expression is no garbage; and
`Means`, which is `MeansC` of loads whose name has a meaning. `MeansC` alone is not
inductive: a load may be given anything the scope holds, and one without a meaning
could get one from a global that is declared later. `Known` bounds the first: if the
function has one alloca of a name, what the scope holds for it is that one, and so
is what C means, unless it means a global. `AcceptsC` follows from `Agree` (a read
finds something, and a value is a load, an address or the constant) and from
`Listing` below, by which the parameters that are stored are the ones that were
read. `FinishedStays` follows because only a step inside a function appends to
it, and then a block is open.

`FunctionsSound` needs a second invariant, `FInv`, beside this one: `Table` and
`Budget` (every storage is an item of the text, and parameters that are read but
not stored are counted, so that the bounds on texts are bounds on nothing else);
`Built` (every instruction is one its function can have); `Listing` (`params` is
what was read turned round, and the types of the function are made from it);
`Holding` (the parameters `BuildFunction` has come to have a slot of their type,
and the argument of the same number is stored there; p2 comes to them from one end
of the list, p2cpp from the other); `Returns` (within C a finished function ends
in a return, unless it returns a pointer in p2cpp, and an implicit one is of the
function's type and not behind another). That the function at its end agrees with
its parameters cannot be carried without `Holding`: halfway through the loop only
some have been stored.

**Optimizer drivers.** `Progress` says what is known at each place of `main`;
`Kept`, when the input is as it was. `OutputSound` needs what those do not say, and
`Made` does: the module in memory is the input with the passes that ran so far, an
empty module if the input was emptied first, and what the output holds before `main`
writes it and after it has ended. The last clause of `OriginalKept`, what is left of
an input that was emptied, is `Made` too. That statistics never land on the output of p4 rests on
`OptDriverAssumption`: a name and its `.stats` differ.

**Dominance.** `TreeInv` says what the trees are of: `Fresh` (they are those of the
function asked about last, and of its graph as it is, if it has not changed since),
`Analysed` (`LI` has analysed only functions that were asked about, and if that is
only one, from the present trees) and `Underway` (a walk over the children of a
block of a function that stays as it is has seen those before the one it is at,
each once). An answer that a client may rely on is one `Fresh` covers; for nesting
depth it takes `Analysed`, which is why a second function is an exception there.

**Walks.** `ItInv` has `LoopsMade` (the loops that were listed are all different),
`Going` and `Draining` (what is in a worklist, or has just been taken from it, is
still to be met, and all else was met once). `Going` has two ways to be along a
list: at a place before which no block is twice, each met once; or sent back, by a
block that is there twice, to a place it never comes past. The second is how
`EndsOverDistinct` follows. Lists and counts are recursive functions: that the
recursion has a solution (`Recursion`), and what the solution is for every
argument (`Induction`), is proved from the least number at which it would fail.

**Tutorials/3.** `SInv` has `Shape` (the blocks behind the open statements are all
different, none is the one being written, and only the innermost while can be
without its blocks), `Regular` (the finished blocks are exactly those with a
terminator, it is their last instruction, and branches stay in the function),
`Linked` (every block but the first is the target of the terminator of an earlier
one) and `Executing`. `BlocksEnd` is `Regular`; without `Shape` a second statement
could finish a block twice. That the whole function is reached from its first block
is by induction over the number of the block, from `Linked`.

That the code does what the program says (`RunsAsWritten`) needs `XInv` beside it.
`Nested`: the level of the last statement is the number of open statements, `map`
holds the variables assigned so far, and the block behind each open statement is
empty and known to the statement that opened it. `Wired`: every instruction is the
one its statement has (`Right`), and whoever is sent on by it comes (`Comes`) to the
instruction of the next statement that is not a semicolon, or to the place where
it will be written; the branch of a `while`'s end in C to the condition of the
`while` that encloses it. `Comes` leaves open what is not written yet, so that
`Wired` holds while the parser still works; once nothing is open and the last
statement is a return it says where every jump lands (`Lands`). `Stored`: in a
program within `Covered` the slots at a statement are those of the variables
assigned before it in the text, which is why no step is undefined
(`NeverStraysThm`): an assignment inside an if adds nothing, as the variable was
assigned at level 0 before. An end is matched with its statement by the levels of
nesting, differences of cardinalities that a statement changes by at most one
(`LevelNext`); `EffectiveIs`, `EndIs` and `OpenerIs` identify the statements that
`SourceProgram` chooses. A reduction is then `Write`, a syntax error or a crash
`Reject`, writing the module `Begin`; a store is `Assign`, a conditional branch
`Test`, the branch at an end `End`, `ret` is `Return`; an alloca, the branch into
a condition and the head of a `while` are stutters.

**Expression translators.** `EInv` is `Counted` and one of two. For the tool that
prints, `Printing`: the registers in use, those of the input and those taken for
results, hold what their expressions mean once the code so far has run; the next
register is not among them, so an instruction that writes it changes none. For the
tools that build, `Composing`: every operand is `NULL` where nothing is meant, and
otherwise refers to an instruction before it whose result is what is meant
(`Denotes`), for values kept in registers across statements too. Running code is a
recursive function over it; `AlongStays` (code that grows leaves the results of the
code before it) and `AlongIs` (the recursion has a solution) serve both machines.
Words are the numbers below `WordValues`, whatever it is; that complement and one
more is the negative (`Wrapped`) is the only fact about it that is not immediate.

**Calculator.** `CInv` is about `Stack` (the state stack with the state that is
about to be pushed) and `Taken` (the tokens shifted so far). `Stacks`: it is a path
of the automaton (`Edge`), with a value that is an int for each state but the
first, and as long as it holds no parenthesis and no prefix operator its height is
at most the `Rank` of the state on top. `Place` says what the last token was from
that state, `Nesting` that the parentheses open on the stack are those of the line,
`Openers` that what is open on the stack was opened in the line. `Followed` and
`Refused` are `RejectsAtOnce`: they need `Place` and `Nesting`, because a state
shifts a token that the line may go on with (`Follows`), and the states that
complain take every such token; `(` counts because `)` fits only where one is
open. `Flags` carries that no entry fits through the default reductions. That a
reduction pops its whole handle and leaves a state that waits for what it reduced
to (`Handle`, `Gotos`) is read off the tables, entry by entry: `TablesAssumption`
is a lemma there (`TablesHold`), not an assumption. An error pops states the token
was refused in, so `Place` and `Nesting` end there.

Only model-checked: liveness under fairness (`Terminates`, `AllEnd`,
`EndsIfDistinct`, the fairness part of `ImplementsDeadCode`; the safety parts of
the arguments, `DrainProgresses` and `EndsOverDistinct`, are proved);
and `LinesAnswered` of `Calc`, what the values on the stack mean. Its reference is
a recursive function over the tokens of a line. The library's induction theorems
cannot be used, as they take an operator; what a recursive function computes can be
proved from a least counterexample, as for the walks, the words and the tokens. For
`LinesAnswered` that would not be enough: it also takes that a line has only one
reading under the precedences of `calc.y`, which has not been proved.

## 6. Assumptions

* Addresses of instructions are distinct and an instruction is not allocated
  again while the worklist lives.
* There are fewer than MAX_IN (1000) inputs: nothing tests it.
* p2cpp can open its output. In `MiniCDriver` a declaration does not start in one
  file and end in the next; in `MiniCLex` a token can be next to anything.
* LLVM is built without assertions: an argument it does not allow is met where it is
  followed, and not where it is passed.
* `MiniC` has no function prototypes and no types beyond a base and one star:
  casts and parentheses pass a value on.
* In `Structured` an expression has one operator and at most two leaves; its loads
  have no store between them and their use; a division by zero is a number like the
  others.
* In `RegExpr` the actions come in an order some grammar of expressions has;
  parsing is in `Calc`. What follows the `;;` of a program is left
  out: no action is called for it.

## 7. Not modelled

* Value map (`valmap.cpp`): each operation is one call of `llvm::ValueMap`.
* CSE and p1 skeletons, `Tutorials/4`, p0 and sample: no logic yet, or straight
  lines of calls that build or print one module.
* Loop list of MiniC (`list.*`): its calls are commented out in both grammars. The
  control flow and operator rules of MiniC are empty, and are in the model as that.
* The worklist's `top` and `destroy` (which frees a new, empty list and not the one
  it is given) and its constructors for a function and a block, which nothing
  calls; the loop wrappers
  and dominance frontiers that are one call into LLVM or return NULL: no state.
* Statistics: the counters are never set in this repository.
* flex's buffer switching and stacking, `unput` and `input`, bison's debugging and
  verbose errors, and the parts of `uthash.h` and `utlist.h` that nothing here
  expands: no caller.
* `simple/` repeats `projects/` with make; `wolfbench` and `installer` are
  benchmarks, scripts and containers; the lecture examples demonstrate lists and
  C++ and have no protocol of their own.

Of the lines that count as implementation, about eight thousand are copies of two
vendored headers, and several thousand more are the second copy of a tool, the
empty rules of grammars and the boilerplate around generated tables. They have no
behaviour that is not modelled from another file already, which bounds the share
that `map` can name.

## 8. State of the plan

Done: dead code elimination and its proofs; the symbol table and its proofs; the
driver and its proofs; the parser actions and their proofs; Tutorials/3 and the
proofs that what it writes is whole and does what the program says; the
analysis library and the optimizer drivers and their proofs; the expression
translators and their proof; the calculator's parser and the proof of its stacks
and errors; the lecture scanners and the proofs of their tokens and buffer; the
command line input and the scanner of MiniC and their proofs.

Open: a proof about the values `Calc` prints; the operators and the control flow of
MiniC, when their rules are written.
