------------------------------- MODULE MiniCLex -------------------------------
(***************************************************************************)
(* The scanner of MiniC (minic.lex of p2 and p2cpp) over the files of a    *)
(* run: its rules, the exclusive start condition comment, line_num, and    *)
(* the way from one file to the next, which touches neither of the two.    *)
(* One letter stands for all that names, keywords and constants are made   *)
(* of, the star and the slash for the operators, as they are also what     *)
(* comments are made of, and the hash for a character without a rule.      *)
(* Module MiniCDriver has the files that cannot be opened; here all can.   *)
(***************************************************************************)
EXTENDS Naturals, Sequences, FiniteSets

CONSTANTS
    MaxFiles,     \* bound: files
    MaxText       \* bound: characters of all of them, and the ends between

MiniCLexAssumption == MaxFiles \in Nat \ {0} /\ MaxText \in Nat

\* The two characters of {NEWLINE}.
LF == "newline"
CR == "carriage return"
EOF == "end of file"
Chars == {"a", "*", "/", "#", LF, CR}

VARIABLES
    text,         \* the files in the order of the command line, EOF between two
    at,           \* how much of it has been read
    start,        \* YY_START
    line_num,
    tokens,       \* what the parser has been given
    pc            \* "scan"; "end" or, by lexical_error, "exited"

vars == <<text, at, start, line_num, tokens, pc>>

Init ==
    /\ text \in UNION {[1..k -> Chars \cup {EOF}] : k \in 0..MaxText}
    /\ Cardinality({i \in DOMAIN text : text[i] = EOF}) < MaxFiles
    /\ at = 0
    /\ start = "INITIAL"
    /\ line_num = 1
    /\ tokens = << >>
    /\ pc = "scan"

-----------------------------------------------------------------------------
\* The longest match: how many of the next characters are in S, behind the
\* first n.
Run(n, S) ==
    CHOOSE k \in 0..(Len(text) - at - n) :
        /\ \A i \in 1..k : text[at + n + i] \in S
        /\ at + n + k < Len(text) => text[at + n + k + 1] \notin S

Follows(n, c) == at + n < Len(text) /\ text[at + n + 1] = c

\* A rule of a start condition matches n characters.
Matches(condition, n) ==
    /\ pc = "scan"
    /\ start = condition
    /\ n > 0
    /\ at' = at + n
    /\ UNCHANGED <<text, pc>>

Token(t) == tokens' = Append(tokens, t)

Identifier ==
    /\ Matches("INITIAL", Run(0, {"a"}))
    /\ Token("ID")
    /\ UNCHANGED <<start, line_num>>

\* A slash before a star begins a comment.
Operator ==
    /\ \/ Follows(0, "*") /\ Token("STAR")
       \/ Follows(0, "/") /\ ~Follows(1, "*") /\ Token("DIV")
    /\ Matches("INITIAL", 1)
    /\ UNCHANGED <<start, line_num>>

OpenComment ==
    /\ Follows(0, "/") /\ Follows(1, "*")
    /\ Matches("INITIAL", 2)
    /\ start' = "comment"
    /\ UNCHANGED <<line_num, tokens>>

\* {NEWLINE}, in both start conditions; but in a comment [^*\n]*, as long and
\* further up, takes a carriage return.
Newline ==
    /\ Follows(0, LF) \/ (Follows(0, CR) /\ start = "INITIAL")
    /\ Matches(start, 1)
    /\ line_num' = line_num + 1
    /\ UNCHANGED <<start, tokens>>

\* A bug: only a single star and a slash are taken for the end.
CommentEnds_single(stars) == stars = 1 /\ Follows(stars, "/")

CommentEnds(stars) == stars > 0 /\ Follows(stars, "/")

\* "*"+"/", one longer than what "*"+[^*/\n]* matches here.
CloseComment ==
    LET stars == Run(0, {"*"}) IN
        /\ CommentEnds(stars)
        /\ Matches("comment", stars + 1)
        /\ start' = "INITIAL"
        /\ UNCHANGED <<line_num, tokens>>

\* "*"+[^*/\n]* and [^*\n]*
Comment ==
    LET stars == Run(0, {"*"}) IN
        /\ ~CommentEnds(stars)
        /\ Matches("comment", IF stars > 0
                              THEN stars + Run(stars, Chars \ {"*", "/", LF})
                              ELSE Run(0, Chars \ {"*", LF}))
        /\ UNCHANGED <<start, line_num, tokens>>

\* The rule for any other character: lexical_error exits.
Unmatched ==
    /\ pc = "scan" /\ start = "INITIAL"
    /\ Follows(0, "#")
    /\ pc' = "exited"
    /\ UNCHANGED <<text, at, start, line_num, tokens>>

\* yywrap opens the next file.  The scanner goes on in the same start condition.
NextFile ==
    /\ Follows(0, EOF)
    /\ Matches(start, 1)
    /\ UNCHANGED <<start, line_num, tokens>>

\* yywrap finds no other file; a comment may still be open.
End ==
    /\ pc = "scan" /\ at = Len(text)
    /\ pc' = "end"
    /\ UNCHANGED <<text, at, start, line_num, tokens>>

Next ==
    \/ Identifier \/ Operator \/ Newline \/ Unmatched
    \/ OpenComment \/ Comment \/ CloseComment
    \/ NextFile \/ End

\* The parser asks for tokens to the end.
Spec == Init /\ [][Next]_vars /\ WF_vars(Next)

-----------------------------------------------------------------------------
\* The text by the rules of C, but that a comment may go on in the next file.

\* Where c and d stand next to each other, at p or behind it.
Pair(c, d, p) ==
    LET there == {i \in p..(Len(text) - 1) : text[i] = c /\ text[i + 1] = d} IN
        IF there = {} THEN Len(text) + 1 ELSE CHOOSE i \in there : \A j \in there : i <= j

\* The places that are in no comment.
Code ==
    LET From[p \in Nat \ {0}] ==
            IF p > Len(text) THEN {}
            ELSE LET i == Pair("/", "*", p) IN
                    p..(i - 1) \cup From[Pair("*", "/", i + 2) + 2]
    IN  From[1]

Errors == {i \in Code : text[i] = "#"}
Good == {i \in Code : \A e \in Errors : i < e}

\* Where a token begins.
Begins == {i \in Good :
              \/ text[i] \in {"*", "/"}
              \/ text[i] = "a" /\ ~(i - 1 \in Good /\ text[i - 1] = "a")}

Named(c) == CASE c = "a" -> "ID" [] c = "*" -> "STAR" [] c = "/" -> "DIV"

TypeOK ==
    /\ at \in 0..Len(text)
    /\ start \in {"INITIAL", "comment"}
    /\ line_num \in 1..(MaxText + 1)
    /\ tokens \in Seq({"ID", "STAR", "DIV"})
    /\ pc \in {"scan", "end", "exited"}

\* Comments come and go, with stars and slashes in and around them and files
\* ending inside them, and the parser is given the tokens outside of them, up
\* to the first character that is in none, where the tool ends.
TokensMeant ==
    pc # "scan" =>
        /\ Len(tokens) = Cardinality(Begins)
        /\ \A i \in Begins : tokens[Cardinality({j \in Begins : j <= i})] = Named(text[i])
        /\ pc = "exited" <=> Errors # {}
        /\ pc = "exited" => at + 1 \in Errors /\ \A e \in Errors : at + 1 <= e

\* line_num counts every line feed once, in comments too, and goes on counting
\* in the next file: the line of an error is that of the first file only.  A
\* carriage return counts too where it is in no comment, and there alone: the
\* lines of a file that ends them with both count twice outside of comments.
LineCounted ==
    line_num = 1 + Cardinality({i \in 1..at : text[i] = LF \/ (text[i] = CR /\ i \in Code)})

LexSound == TypeOK /\ TokensMeant /\ LineCounted

Ends == <>(pc # "scan")
=============================================================================
