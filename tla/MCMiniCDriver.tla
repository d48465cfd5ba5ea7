---------------------------- MODULE MCMiniCDriver ----------------------------
(***************************************************************************)
(* Small instances of the front end but for its parser, side by side.      *)
(*                                                                         *)
(* part = "driver": MiniCDriver with every command line of up to three     *)
(* tokens and some longer ones, over two input files and the default       *)
(* output, which may also be named as an input or an output.               *)
(*                                                                         *)
(* part = "words": CmdInput with two arguments of up to four bytes, for a  *)
(* scanner that reads three at a time: an argument of two is the longest   *)
(* that is handed out whole.                                               *)
(*                                                                         *)
(* part = "tokens": MiniCLex with every text of six characters in at most  *)
(* three files: room for a comment with stars around a letter and a token  *)
(* on each side, and for one that two files share.                         *)
(***************************************************************************)
EXTENDS MiniCDriver, FrontEnd

CONSTANTS f, g, out

ASSUME C!CmdInputAssumption /\ L!MiniCLexAssumption

MCLetters == {"a", "b"}

MCNames == {f, g, out}

\* f and g are alike: g is named only behind f.
MCCommandLines ==
    LET T == MCNames \cup {Option, Output} IN
    {t \in UNION {[1..n -> T] : n \in 0..3} :
        \A i \in DOMAIN t : t[i] = g => \E j \in 1..(i - 1) : t[j] = f}
        \cup {<<f, g, Output, out>>, <<Output, Option, f, g>>,
              <<f, g, f, g>>, <<Output, Output, f, g>>,
              <<Output, f, Output, g, f>>, <<f, Output, f, g, Option>>}

MCContents ==
    {<< >>, <<"good", "good">>, <<"good", "syntax">>, <<"lexical">>}

MCStdins == {<< >>, <<"good", "good">>}

all == <<part, vars, scanning, lexing>>

\* The letter at a place of an argument is of no matter as long as the places
\* can be told apart.
Letter == << <<"a", "b", "b", "a">>, <<"b", "a", "a", "b">> >>

DriverRests ==
    /\ tool = "p2" /\ argv = << >> /\ pc = "cmdline"
    /\ given = [file |-> [n \in Names |-> Missing], stdin |-> << >>]
    /\ targv = 1 /\ fname = FALSE /\ outfile = NoName /\ infile = << >>
    /\ disk = given.file /\ infile_cnt = 1 /\ currentFile = 0 /\ yyin = 0
    /\ open = {} /\ at = 0 /\ module = << >> /\ seen = {} /\ status = 0

WordsRest ==
    /\ args = << >> /\ arg = 1 /\ offset = 0 /\ buf_size = 0
    /\ token = << >> /\ words = << >> /\ reads = 0 /\ scan = "rests"

TokensRest ==
    /\ text = << >> /\ read = 0 /\ start = "INITIAL" /\ line_num = 1
    /\ tokens = << >> /\ lex = "rests"

MCInit ==
    \/ part = "driver" /\ Init /\ WordsRest /\ TokensRest
    \/ /\ part = "words" /\ DriverRests /\ C!Init /\ TokensRest
       /\ \A i \in DOMAIN args : \A j \in DOMAIN args[i] : args[i][j] \in {" ", Letter[i][j]}
    \/ part = "tokens" /\ DriverRests /\ WordsRest /\ L!Init

MCDriver == part = "driver" /\ Next /\ UNCHANGED <<part, scanning, lexing>>
MCWords == part = "words" /\ C!Next /\ UNCHANGED <<part, vars, lexing>>
MCTokens == part = "tokens" /\ L!Next /\ UNCHANGED <<part, vars, scanning>>

MCSpec ==
    /\ MCInit /\ [][MCDriver \/ MCWords \/ MCTokens]_all
    /\ WF_all(MCDriver) /\ WF_all(MCWords) /\ WF_all(MCTokens)

\* The driver ends, whatever it is told and given; so do the scanner of MiniC
\* and that of the command line, but for the arguments that Ends of CmdInput
\* names.
AllEnd ==
    /\ part = "driver" => Terminates
    /\ part = "words" => C!Ends
    /\ part = "tokens" => L!Ends
=============================================================================
