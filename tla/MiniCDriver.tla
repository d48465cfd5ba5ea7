----------------------------- MODULE MiniCDriver -----------------------------
(***************************************************************************)
(* The MiniC compiler around its parser: the command line scanner          *)
(* (cmdline.lex), the switch from one input file to the next (yywrap in    *)
(* minic.y) and main, for p2 (C) and p2cpp (C++).                          *)
(*                                                                         *)
(* A file is a sequence of external declarations; the scanner or the       *)
(* parser may stumble over one of them.  An argument is a token of the     *)
(* command line scanner; one with blanks in it is several tokens.          *)
(***************************************************************************)
EXTENDS Naturals, Sequences, FiniteSets

CONSTANTS
    Names,          \* file names
    OutBc,          \* "out.bc", the default output
    Tokens,         \* command lines to consider, each a sequence of tokens
    Contents,       \* contents of input files, sequences over Unit
    Stdins,         \* what may come from stdin
    Missing,        \* a file that cannot be opened
    Bitcode,        \* a file that holds the module
    NoName          \* NULL

Option == "option"  \* -h, -?, -v, -verbose: they set nothing that is read
Output == "-o"
Unit == {"good", "syntax", "lexical"}

ASSUME DriverAssumption ==
    /\ OutBc \in Names
    /\ Tokens \subseteq Seq(Names \cup {Option, Output})
    /\ Contents \subseteq Seq(Unit)
    /\ Stdins \subseteq Contents
    /\ << >> \in Contents
    /\ Missing \notin Contents
    /\ Bitcode \notin Contents \cup {Missing}
    /\ NoName \notin Names
    /\ {Option, Output} \cap Names = {}

Tools == {"p2", "p2cpp"}

VARIABLES
    tool,           \* which of the two programs runs
    argv,           \* the command line
    given,          \* the files before the program runs, and stdin
    pc,             \* where main is
    targv,          \* how far Cmdlex has got in argv
    fname,          \* Cmdlex is in start condition FNAME
    outfile,        \* name of the output, or NoName
    infile,         \* names of the inputs
    disk,           \* the files
    infile_cnt,     \* infile[infile_cnt] is the next to be opened
    currentFile,    \* yywrap's handle, 0 for NULL; the i-th input has handle i
    yyin,           \* the handle the scanner reads, 0 for stdin
    open,           \* the handles that are open
    at,             \* how many units of yyin have been read
    module,         \* units in the module, each <<handle, position>>
    seen,           \* what has gone wrong so far
    status          \* exit status

cmdline == <<targv, fname, outfile, infile>>
inputs  == <<infile_cnt, currentFile, yyin, open>>
fixed   == <<tool, argv, given>>
vars    == <<fixed, cmdline, inputs, pc, disk, at, module, seen, status>>

Init ==
    /\ tool \in Tools
    /\ argv \in Tokens
    /\ given \in [file : [Names -> Contents \cup {Missing}], stdin : Stdins]
    /\ pc = "cmdline"
    /\ targv = 1
    /\ fname = FALSE
    /\ outfile = NoName
    /\ infile = << >>
    /\ disk = given.file
    /\ infile_cnt = 1
    /\ currentFile = 0
    /\ yyin = 0
    /\ open = {}
    /\ at = 0
    /\ module = << >>
    /\ seen = {}
    /\ status = 0

-----------------------------------------------------------------------------
\* The rules of cmdline.lex.

\* A bug: FNAME is not left after the name.
LeaveFNAME_not == UNCHANGED fname

LeaveFNAME == fname' = FALSE

\* <FNAME>[^ ]+ and [^ ]+
FileName(w) ==
    /\ IF fname THEN outfile' = w /\ UNCHANGED infile
                ELSE infile' = Append(infile, w) /\ UNCHANGED outfile
    /\ LeaveFNAME

\* A bug: the scanner gets the same option again and again.
Consume_stuck == targv' = IF argv[targv] = Option THEN targv ELSE targv + 1

\* myinput goes on to the next argument.
Consume == targv' = targv + 1

\* FNAME is inclusive and its rule comes last of those that match an option:
\* an option after -o is still an option.
Cmdlex ==
    /\ pc = "cmdline"
    /\ targv <= Len(argv)
    /\ Consume
    /\ \/ argv[targv] = Option /\ UNCHANGED <<fname, outfile, infile>>
       \/ argv[targv] = Output /\ fname' = TRUE /\ UNCHANGED <<outfile, infile>>
       \/ argv[targv] \in Names /\ FileName(argv[targv])
    /\ UNCHANGED <<fixed, inputs, pc, disk, at, module, seen, status>>

Target == IF outfile = NoName THEN OutBc ELSE outfile

\* main after Cmdlex.
NoInput ==
    /\ pc = "cmdline" /\ targv > Len(argv)
    /\ infile = << >>
    /\ outfile' = Target
    /\ status' = 1
    /\ pc' = "done"
    /\ UNCHANGED <<fixed, inputs, targv, fname, infile, disk, at, module, seen>>

\* A bug: p2 empties its output early, too.
Emptied_always == [disk EXCEPT ![Target] = << >>]

\* p2cpp constructs its ToolOutputFile; p2 opens the output when it writes.
Emptied == IF tool = "p2cpp" THEN [disk EXCEPT ![Target] = << >>] ELSE disk

Prepare ==
    /\ pc = "cmdline" /\ targv > Len(argv)
    /\ infile # << >>
    /\ outfile' = Target
    /\ disk' = Emptied
    /\ pc' = "start"
    /\ UNCHANGED <<fixed, inputs, targv, fname, infile, at, module, seen, status>>

-----------------------------------------------------------------------------
\* yywrap, called by main once and by the scanner at the end of each file.

\* A bug: a file is skipped.
Advance_two == infile_cnt' = infile_cnt + 2

Advance == infile_cnt' = infile_cnt + 1

\* A bug: the previous file is left open.
Fclose_never == open

\* fclose(yyin), if a file was opened the last time.
Fclose == IF currentFile # 0 THEN open \ {yyin} ELSE open

\* It returns 1: there is no other file.
WrapEnd ==
    /\ infile_cnt > Len(infile)
    /\ open' = Fclose
    /\ UNCHANGED <<infile_cnt, currentFile, yyin, at, seen>>

\* It returns 0.
WrapOpens ==
    /\ infile_cnt <= Len(infile)
    /\ disk[infile[infile_cnt]] # Missing
    /\ open' = Fclose \cup {infile_cnt}
    /\ currentFile' = infile_cnt
    /\ yyin' = infile_cnt
    /\ at' = 0
    /\ Advance
    /\ UNCHANGED seen

\* It returns 1 as if there were no other file, and leaves yyin as it is.
WrapFails ==
    /\ infile_cnt <= Len(infile)
    /\ disk[infile[infile_cnt]] = Missing
    /\ open' = Fclose
    /\ currentFile' = 0
    /\ seen' = seen \cup {"missing"}
    /\ Advance
    /\ UNCHANGED <<yyin, at>>

\* The call in main, which does not look at the result.  A yyin that is still
\* NULL makes the scanner read stdin.
FirstFile ==
    /\ pc = "start"
    /\ WrapOpens \/ WrapFails
    /\ pc' = "parse"
    /\ UNCHANGED <<fixed, cmdline, disk, module, status>>

-----------------------------------------------------------------------------
\* yyparse.

Text == IF yyin = 0 THEN given.stdin ELSE disk[infile[yyin]]

Declaration ==
    /\ pc = "parse"
    /\ at < Len(Text)
    /\ Text[at + 1] = "good"
    /\ at' = at + 1
    /\ module' = Append(module, <<yyin, at + 1>>)
    /\ UNCHANGED <<fixed, cmdline, inputs, pc, disk, seen, status>>

\* yyerror prints; yyparse returns 1, and main does not look at that either.
\* num_errors stays 0.
SyntaxError ==
    /\ pc = "parse"
    /\ at < Len(Text)
    /\ Text[at + 1] = "syntax"
    /\ seen' = seen \cup {"syntax"}
    /\ pc' = "write"
    /\ UNCHANGED <<fixed, cmdline, inputs, disk, at, module, status>>

\* lexical_error exits; the destructor of p2cpp's output file does not run.
LexicalError ==
    /\ pc = "parse"
    /\ at < Len(Text)
    /\ Text[at + 1] = "lexical"
    /\ seen' = seen \cup {"lexical"}
    /\ status' = 255
    /\ pc' = "done"
    /\ UNCHANGED <<fixed, cmdline, inputs, disk, at, module>>

NextFile ==
    /\ pc = "parse"
    /\ at = Len(Text)
    /\ WrapOpens
    /\ UNCHANGED <<fixed, cmdline, pc, disk, module, status>>

\* A translation unit without a declaration is a syntax error.
LastFile ==
    /\ pc = "parse"
    /\ at = Len(Text)
    /\ WrapEnd \/ WrapFails
    /\ pc' = IF module = << >> THEN "empty" ELSE "write"
    /\ UNCHANGED <<fixed, cmdline, disk, module, status>>

EmptyInput ==
    /\ pc = "empty"
    /\ seen' = seen \cup {"syntax"}
    /\ pc' = "write"
    /\ UNCHANGED <<fixed, cmdline, inputs, disk, at, module, status>>

\* What the program leaves in its output: p2cpp would remove it without keep().
Kept == Bitcode

\* num_errors is 0 (so minic_abort is out of reach): the module is written and
\* the status is EXIT_SUCCESS.
Write ==
    /\ pc = "write"
    /\ disk' = [disk EXCEPT ![outfile] = Kept]
    /\ pc' = "done"
    /\ UNCHANGED <<fixed, cmdline, inputs, at, module, seen, status>>

\* LLVMWriteBitcodeToFile fails and p2 does not see it.
WriteFails ==
    /\ pc = "write"
    /\ tool = "p2"
    /\ seen' = seen \cup {"write"}
    /\ pc' = "done"
    /\ UNCHANGED <<fixed, cmdline, inputs, disk, at, module, status>>

Next ==
    \/ Cmdlex \/ NoInput \/ Prepare
    \/ FirstFile \/ NextFile \/ LastFile
    \/ Declaration \/ SyntaxError \/ LexicalError \/ EmptyInput
    \/ Write \/ WriteFails

Spec == Init /\ [][Next]_vars /\ WF_vars(Next)

-----------------------------------------------------------------------------
\* Properties.

Pcs == {"cmdline", "start", "parse", "empty", "write", "done"}

TypeOK ==
    /\ tool \in Tools /\ argv \in Tokens
    /\ given \in [file : [Names -> Contents \cup {Missing}], stdin : Stdins]
    /\ pc \in Pcs
    /\ targv \in 1..(Len(argv) + 1)
    /\ fname \in BOOLEAN
    /\ outfile \in Names \cup {NoName}
    /\ infile \in Seq(Names)
    /\ disk \in [Names -> Contents \cup {Missing, Bitcode}]
    /\ infile_cnt \in 1..(Len(infile) + 1)
    /\ {currentFile, yyin} \subseteq 0..(infile_cnt - 1)
    /\ open \subseteq 1..(infile_cnt - 1)
    /\ pc \in {"parse", "empty"} => at \in 0..Len(Text)
    /\ module \in Seq(Nat \X Nat)
    /\ seen \subseteq {"missing", "syntax", "lexical", "write"}
    /\ status \in {0, 1, 255}

\* A name belongs to the nearest -o before it unless another name has been
\* given since; options may stand between them.
Taken == {i \in 1..Len(argv) :
            /\ argv[i] \in Names
            /\ \E j \in 1..(i - 1) :
                  /\ argv[j] = Output
                  /\ \A k \in (j + 1)..(i - 1) : argv[k] \notin Names}

Inputs == {i \in 1..Len(argv) : argv[i] \in Names} \ Taken

\* The command line means: the last name that follows an -o is the output, the
\* other names are the inputs, in order.
CmdlineMeaning ==
    pc # "cmdline" =>
        /\ Len(infile) = Cardinality(Inputs)
        /\ \A i \in Inputs : infile[Cardinality({k \in Inputs : k <= i})] = argv[i]
        /\ IF Taken = {} THEN outfile = OutBc
           ELSE \E i \in Taken : outfile = argv[i] /\ \A k \in Taken : k <= i

\* yywrap never closes a file twice, no file stays open behind the one that is
\* read, and the scanner never reads a file that has been closed: although a
\* failed fopen clears currentFile and leaves yyin.
FilesHandled ==
    pc \in {"start", "parse"} =>
        /\ open = (IF currentFile = 0 THEN {} ELSE {yyin})
        /\ yyin \in open \cup {0}

\* The state that yywrap keeps, and the rest.
HandlesSound == TypeOK /\ FilesHandled

Before(u, v) == u[1] < v[1] \/ (u[1] = v[1] /\ u[2] < v[2])

\* The files that have been read up to the present one: stdin instead of the
\* first if that is missing, then all the others without a gap.
Read == {IF disk[infile[1]] = Missing THEN 0 ELSE 1} \cup 2..yyin

Size(text) == IF text = Missing THEN 0 ELSE Len(text)

Units(h) == Size(IF h = 0 THEN given.stdin ELSE disk[infile[h]])

\* Declarations reach the module in the order of the command line and of their
\* files, none twice and, while it goes on reading, none left out.
ReadInOrder ==
    /\ \A i, j \in 1..Len(module) : i < j => Before(module[i], module[j])
    /\ pc = "parse" =>
          {module[i] : i \in 1..Len(module)} =
              UNION {{<<h, k>> : k \in 1..(IF h = yyin THEN at ELSE Units(h))} :
                        h \in Read}

\* A run in which nothing has gone wrong has written every declaration of every
\* input file, as the files were before the run: unless p2cpp was told to write
\* one of its inputs, which it empties before it reads it.
CleanCompile ==
    (/\ pc = "done" /\ status = 0 /\ seen = {}
     /\ tool = "p2" \/ \A i \in 1..Len(infile) : infile[i] # outfile) =>
        /\ disk[outfile] = Bitcode
        /\ {module[i] : i \in 1..Len(module)} =
              UNION {{<<h, k>> : k \in 1..Size(given.file[infile[h]])} :
                        h \in 1..Len(infile)}

\* At the end no file but the output is different from before, and the output
\* is different only if it is complete: unless p2cpp left through exit in
\* lexical_error, which leaves it empty.
OutputWhole ==
    pc = "done" =>
        \A f \in Names : disk[f] # given.file[f] =>
            /\ f = outfile
            /\ \/ disk[f] = Bitcode
               \/ tool = "p2cpp" /\ disk[f] = << >> /\ "lexical" \in seen

\* What is in the files when the tool ends.
FilesWhole == CleanCompile /\ OutputWhole

\* Whatever is on the command line, every input is left behind and the tool
\* ends.
Terminates == <>(pc = "done")

\* "Return an error status if it failed" (main.c).  A syntax error does not
\* count: nothing increments num_errors, and what there is of the module is
\* written.
FailureReported == pc = "done" /\ "syntax" \in seen => status # 0
=============================================================================
