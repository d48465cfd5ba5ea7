---------------------------------- MODULE Calc ----------------------------------
(***************************************************************************)
(* The calculator of LectureCode/Parser: the parser that bison made of     *)
(* calc.y, as it is checked in in calc.y.c.  yyparse goes by its tables,   *)
(* reads a token when it cannot decide without one, prints the value of a  *)
(* line when it reduces it, and doubles its stacks when they are full.     *)
(* The tokens are what the scanner returns (module Scanner).               *)
(***************************************************************************)
EXTENDS Integers, Sequences, FiniteSets

CONSTANTS
    Numbers,        \* values of the NUMBER tokens in the input
    IntMax,         \* INT_MAX
    YYINITDEPTH,
    MaxDepths,      \* YYMAXDEPTH may be one of these
    MaxTokens       \* bound: tokens in the input

\* Two's complement.
IntMin == -IntMax - 1
IntValues == 2 * (IntMax + 1)

\* calc.y.h
NUMBER == 258
PLUS == 259
MINUS == 260
LPAREN == 261
RPAREN == 262
NEWLINE == 263
MULTIPLY == 264
DIVIDE == 265
DECREMENT == 266
YYEMPTY == -2
YYEOF == 0

\* Arrays that start at 0.
Array(s) == [i \in 0..(Len(s) - 1) |-> s[i + 1]]

YYFINAL == 11
YYLAST == 49
YYNTOKENS == 12
YYTERROR == 1
YYPACT_NINF == -3
\* A bug: "+" and "-" have no precedence, and are shifted.
yypact_shift == Array(<<18, -3, 25, 25, -3, 25, 14, 1, 39, 28, 37, -3, -3, 35, 25, 25,
                        -3, 25, 25, -3, -3, 37, 37, -3, -3>>)

yypact == Array(<<18, -3, 25, 25, -3, 25, 14, 1, 39, 28, 37, -3, -3, 35, 25, 25,
                  -3, 25, 25, -3, -3, 39, 39, -3, -3>>)
yydefact == Array(<<0, 11, 0, 0, 2, 0, 0, 0, 12, 0, 13, 1, 5, 0, 0, 0, 3, 0, 0,
                    10, 4, 6, 7, 8, 9>>)
yypgoto == Array(<<-3, -3, -2>>)
yydefgoto == Array(<<-1, 6, 7>>)
yytable == Array(<<8, 9, 0, 10, 13, 14, 15, 0, 0, 16, 17, 18, 21, 22, 11, 23, 24,
                   1, 0, 2, 3, 1, 12, 2, 3, 5, 4, 0, 1, 5, 2, 3, 14, 15, 0, 19,
                   5, 17, 18, 14, 15, 14, 15, 20, 17, 18, 17, 18, 17, 18>>)
yycheck == Array(<<2, 3, -1, 5, 6, 4, 5, -1, -1, 8, 9, 10, 14, 15, 0, 17, 18,
                   3, -1, 5, 6, 3, 8, 5, 6, 11, 8, -1, 3, 11, 5, 6, 4, 5, -1, 7,
                   11, 9, 10, 4, 5, 4, 5, 8, 9, 10, 9, 10, 9, 10>>)
yyr1 == Array(<<0, 12, 13, 13, 13, 13, 14, 14, 14, 14, 14, 14, 14, 14>>)
yyr2 == Array(<<0, 2, 1, 2, 3, 2, 3, 3, 3, 3, 3, 1, 2, 2>>)

YYTRANSLATE(x) == CASE x = YYEOF -> 0 [] x \in 256..266 -> x - 255 [] OTHER -> 2

\* yytable holds no reduction, and no state has an action for the error token.
TablesAssumption ==
    \A i \in 0..YYLAST : yycheck[i] >= 0 => yytable[i] > 0 /\ yycheck[i] # YYTERROR

CalcAssumption ==
    /\ IntMax \in Nat /\ Numbers \subseteq 0..IntMax
    /\ YYINITDEPTH \in Nat \ {0} /\ MaxTokens \in Nat
    /\ \A d \in MaxDepths : d \in Nat /\ d >= YYINITDEPTH

VARIABLES
    given,          \* the tokens yylex has returned, with their values
    yychar, yylval, \* the lookahead, and the value of the last NUMBER
    yyss, yyvs,     \* the stacks; the state at the bottom has no value
    yystacksize, yymaxdepth,
    yystate, yyerrstatus,
    out,            \* what has been printed
    pc              \* the label yyparse is at, or how it has ended

lookahead == <<given, yychar, yylval>>
sizes == <<yystacksize, yymaxdepth>>
vars == <<lookahead, yyss, yyvs, sizes, yystate, yyerrstatus, out, pc>>

Init ==
    /\ given = << >> /\ yychar = YYEMPTY /\ yylval = 0
    /\ yyss = << >> /\ yyvs = << >>
    /\ yystacksize = YYINITDEPTH /\ yymaxdepth \in MaxDepths
    /\ yystate = 0 /\ yyerrstatus = 0
    /\ out = << >>
    /\ pc = "newstate"

DropLast(s, n) == SubSeq(s, 1, Len(s) - n)
Top(s) == s[Len(s)]

-----------------------------------------------------------------------------
\* yynewstate and yysetstate: push yystate, make room for the next one.

Full(height) == yystacksize <= height

Doubled == IF yymaxdepth < 2 * yystacksize THEN yymaxdepth ELSE 2 * yystacksize

yynewstate ==
    /\ pc = "newstate"
    /\ yyss' = Append(yyss, yystate)
    /\ ~(Full(Len(yyss')) /\ yymaxdepth <= yystacksize)
    /\ yystacksize' = IF Full(Len(yyss')) THEN Doubled ELSE yystacksize
    /\ pc' = IF Full(Len(yyss')) /\ yystacksize' <= Len(yyss') THEN "aborted"
             ELSE IF yystate = YYFINAL THEN "accepted" ELSE "backup"
    /\ UNCHANGED <<lookahead, yyvs, yymaxdepth, yystate, yyerrstatus, out>>

yyexhaustedlab ==
    /\ pc = "newstate"
    /\ yyss' = Append(yyss, yystate)
    /\ Full(Len(yyss')) /\ yymaxdepth <= yystacksize
    /\ out' = Append(out, "memory exhausted")
    /\ pc' = "exhausted"
    /\ UNCHANGED <<lookahead, yyvs, sizes, yystate, yyerrstatus>>

-----------------------------------------------------------------------------
\* yybackup

\* A bug: a token is read in every state.
Consistent_never(s) == FALSE

\* There is no need of a token.
Consistent(s) == yypact[s] = YYPACT_NINF

DefaultWithoutToken ==
    /\ pc = "backup" /\ Consistent(yystate)
    /\ pc' = "default"
    /\ UNCHANGED <<lookahead, yyss, yyvs, sizes, yystate, yyerrstatus, out>>

\* The tokens that have no value leave yylval as it is.
yylex ==
    /\ pc = "backup" /\ ~Consistent(yystate) /\ yychar = YYEMPTY
    /\ yychar' \in IF Len(given) < MaxTokens THEN {YYEOF} \cup NUMBER..DECREMENT
                   ELSE {YYEOF}
    /\ yylval' \in IF yychar' = NUMBER THEN Numbers ELSE {yylval}
    /\ given' = Append(given, [tok |-> yychar', val |-> yylval'])
    /\ UNCHANGED <<yyss, yyvs, sizes, yystate, yyerrstatus, out, pc>>

\* The place of yytoken in the tables, in the row of the state.
Look == yypact[yystate] + YYTRANSLATE(yychar)

Listed == Look \in 0..YYLAST /\ yycheck[Look] = YYTRANSLATE(yychar)

DefaultForToken ==
    /\ pc = "backup" /\ ~Consistent(yystate) /\ yychar # YYEMPTY /\ ~Listed
    /\ pc' = "default"
    /\ UNCHANGED <<lookahead, yyss, yyvs, sizes, yystate, yyerrstatus, out>>

Shift ==
    /\ pc = "backup" /\ ~Consistent(yystate) /\ yychar # YYEMPTY /\ Listed
    /\ yyerrstatus' = IF yyerrstatus > 0 THEN yyerrstatus - 1 ELSE 0
    /\ yychar' = YYEMPTY
    /\ yystate' = yytable[Look]
    /\ yyvs' = Append(yyvs, yylval)
    /\ pc' = "newstate"
    /\ UNCHANGED <<given, yylval, yyss, sizes, out>>

-----------------------------------------------------------------------------
\* yydefault and yyreduce

Rule == yydefact[yystate]
yylen == yyr2[Rule]

\* $1, $2, $3 of the rule.
Arg(n) == yyvs[Len(yyvs) - yylen + n]

\* Arithmetic on int, as the build does it.
Wrap(n) == ((n - IntMin) % IntValues) + IntMin

\* Division truncates.
Quotient(a, b) ==
    LET Abs(n) == IF n < 0 THEN -n ELSE n
        q == Abs(a) \div Abs(b)
    IN  IF (a < 0) = (b < 0) THEN q ELSE -q

\* yyval: the actions of calc.y, $1 where there is none.
Yyval ==
    CASE Rule = 6 -> Wrap(Arg(1) + Arg(3))
      [] Rule = 7 -> Wrap(Arg(1) - Arg(3))
      [] Rule = 8 -> Wrap(Arg(1) * Arg(3))
      [] Rule = 9 -> IF Arg(3) = 0 THEN 0 ELSE Quotient(Arg(1), Arg(3))
      [] Rule = 10 -> Arg(2)
      [] Rule = 12 -> Wrap(-Arg(2))
      [] Rule = 13 -> Wrap(Arg(2) - 1)
      [] OTHER -> Arg(1)

\* What a rule prints.
Printed ==
    CASE Rule = 3 -> <<Arg(1)>>
      [] Rule = 4 -> <<Arg(2)>>
      [] Rule = 9 /\ Arg(3) = 0 -> <<"Don't divide by zero please!">>
      [] OTHER -> << >>

\* The quotient is no int: the division traps.
Overflows == Rule = 9 /\ Arg(1) = IntMin /\ Arg(3) = -1

\* YYPOPSTACK
Popped(s) == DropLast(s, yylen)

\* A bug: no more of the table is looked at than the default.
Goto_default(s, lhs) == yydefgoto[lhs - YYNTOKENS]

Goto(s, lhs) ==
    LET at == yypgoto[lhs - YYNTOKENS] + s IN
        IF at \in 0..YYLAST /\ yycheck[at] = s THEN yytable[at]
        ELSE yydefgoto[lhs - YYNTOKENS]

yyreduce ==
    /\ pc = "default" /\ Rule # 0 /\ ~Overflows
    /\ out' = out \o Printed
    /\ yyss' = Popped(yyss)
    /\ yyvs' = Append(DropLast(yyvs, yylen), Yyval)
    /\ yystate' = Goto(Top(yyss'), yyr1[Rule])
    /\ pc' = "newstate"
    /\ UNCHANGED <<lookahead, sizes, yyerrstatus>>

Trap ==
    /\ pc = "default" /\ Overflows
    /\ pc' = "trapped"
    /\ UNCHANGED <<lookahead, yyss, yyvs, sizes, yystate, yyerrstatus, out>>

-----------------------------------------------------------------------------
\* Errors

yyerrlab ==
    /\ pc = "default" /\ Rule = 0
    /\ out' = IF yyerrstatus = 0 THEN Append(out, "syntax error") ELSE out
    /\ yyerrstatus' = 3
    /\ pc' = "errlab1"
    /\ UNCHANGED <<lookahead, yyss, yyvs, sizes, yystate>>

\* A bug: the state on top is looked at again and again.
ErrorPops_none == 0

ErrorPops == 1

\* No state takes the error token: all of them are popped.
yyerrlab1 ==
    /\ pc = "errlab1"
    /\ \/ /\ Len(yyss) = 1
          /\ pc' = "aborted"
          /\ UNCHANGED <<yyss, yyvs, yystate>>
       \/ /\ Len(yyss) > 1
          /\ yyss' = DropLast(yyss, ErrorPops)
          /\ yyvs' = DropLast(yyvs, ErrorPops)
          /\ yystate' = Top(yyss')
          /\ pc' = "errlab1"
    /\ UNCHANGED <<lookahead, sizes, yyerrstatus, out>>

Next ==
    \/ yynewstate \/ yyexhaustedlab
    \/ DefaultWithoutToken \/ yylex \/ DefaultForToken \/ Shift
    \/ yyreduce \/ Trap
    \/ yyerrlab \/ yyerrlab1

\* The parser runs until it returns.
Spec == Init /\ [][Next]_vars /\ WF_vars(Next)

-----------------------------------------------------------------------------
\* calc.y as it is written: lines of expressions, %left DECREMENT below %left
\* PLUS MINUS below %left MULTIPLY DIVIDE.

Tok(i) == given[i].tok
Binary == {PLUS, MINUS, MULTIPLY, DIVIDE}
Prefix == {MINUS, DECREMENT}
Prec(t) == CASE t = DECREMENT -> 1 [] t \in {PLUS, MINUS} -> 2 [] OTHER -> 3
Tightest == 4
Looser(p, q) == IF p < q THEN p ELSE q

\* What the tokens from i to j may mean.  A meaning has a value, what is
\* printed on the way, whether a division traps, and the loosest of the
\* operators that are open to the left and of those open to the right.
\* An operator takes an operand to the left that is closed by operators at
\* least as tight, and one to the right opened by tighter ones.
Meanings(first, last) ==
    LET Atom(m) == [m EXCEPT !.left = Tightest, !.right = Tightest]
        Apply(op, a, b) ==
            CASE op = PLUS -> Wrap(a + b)
              [] op = MINUS -> Wrap(a - b)
              [] op = MULTIPLY -> Wrap(a * b)
              [] op = DIVIDE -> IF b = 0 THEN 0 ELSE Wrap(Quotient(a, b))
        Joined(op, a, b) ==
            [val |-> Apply(op, a.val, b.val),
             prints |-> a.prints \o b.prints \o
                        IF op = DIVIDE /\ b.val = 0
                        THEN <<"Don't divide by zero please!">> ELSE << >>,
             traps |-> \/ a.traps \/ b.traps
                       \/ op = DIVIDE /\ a.val = IntMin /\ b.val = -1,
             left |-> Looser(Prec(op), a.left), right |-> Looser(Prec(op), b.right)]
        Prefixed(op, b) ==
            [b EXCEPT !.val = IF op = MINUS THEN Wrap(-b.val) ELSE Wrap(b.val - 1),
                      !.left = Tightest, !.right = Looser(Prec(op), b.right)]
        Mean[i \in first..last, j \in first..last] ==
            CASE i > j -> {}
              [] i = j -> IF Tok(i) # NUMBER THEN {}
                          ELSE {[val |-> given[i].val, prints |-> << >>, traps |-> FALSE,
                                 left |-> Tightest, right |-> Tightest]}
              [] OTHER ->
                   (IF Tok(i) = LPAREN /\ Tok(j) = RPAREN /\ j > i + 1
                    THEN {Atom(m) : m \in Mean[i + 1, j - 1]} ELSE {})
                   \cup (IF Tok(i) \in Prefix
                         THEN {Prefixed(Tok(i), m) :
                                 m \in {m \in Mean[i + 1, j] : m.left > Prec(Tok(i))}}
                         ELSE {})
                   \cup UNION {{Joined(Tok(k), m[1], m[2]) :
                                  m \in {m \in Mean[i, k - 1] \X Mean[k + 1, j] :
                                           /\ m[1].right >= Prec(Tok(k))
                                           /\ m[2].left > Prec(Tok(k))}} :
                               k \in {k \in (i + 1)..(j - 1) : Tok(k) \in Binary}}
    IN  Mean[first, last]

Ends == {i \in DOMAIN given : Tok(i) = NEWLINE}
\* What there is before token i in its line, and where the line starts.
Line(i) == {k \in 1..(i - 1) : \A j \in k..(i - 1) : Tok(j) # NEWLINE}
LineStart(i) == i - Cardinality(Line(i))

\* What the lines that end at tokens up to n print.
LinesPrint(n) ==
    LET From[i \in 0..n] ==
            IF i = 0 THEN << >>
            ELSE IF Tok(i) # NEWLINE \/ LineStart(i) = i THEN From[i - 1]
            ELSE LET m == CHOOSE m \in Meanings(LineStart(i), i - 1) : TRUE IN
                 From[i - 1] \o m.prints \o <<m.val>>
    IN  From[n]

\* The tokens a line may go on with, by what of it there is.
MayFollow(i) ==
    LET line == Line(i)
        Count(t) == Cardinality({k \in line : Tok(k) = t})
        open == Count(LPAREN) - Count(RPAREN)
        operand == line = {} \/ Tok(i - 1) \in Binary \cup {LPAREN, DECREMENT}
    IN  IF operand
        THEN {NUMBER, MINUS, LPAREN, DECREMENT}
             \cup (IF line = {} THEN {NEWLINE} ELSE {})
             \cup (IF line = {} /\ i > 1 THEN {YYEOF} ELSE {})
        ELSE Binary \cup (IF open > 0 THEN {RPAREN} ELSE {NEWLINE})

-----------------------------------------------------------------------------
Ended == pc \in {"accepted", "aborted", "exhausted", "trapped"}

TypeOK ==
    /\ yychar \in {YYEMPTY, YYEOF} \cup NUMBER..DECREMENT
    /\ \A i \in DOMAIN given : given[i].val \in 0..IntMax
    /\ yyss \in Seq(0..24)
    /\ yyvs \in Seq(IntMin..IntMax)
    /\ Len(yyss) <= yystacksize /\ yystacksize <= yymaxdepth
    /\ pc = "backup" => Len(yyvs) = Len(yyss) - 1 /\ Top(yyss) = yystate
    /\ yyerrstatus \in {0, 3}
    /\ Ended \/ pc \in {"newstate", "backup", "default", "errlab1"}

\* When the calculator waits for a token it has printed the value of every line
\* it has been given, each after the complaints about its divisions, and no
\* more than complaints for the line it is in: an answer never waits for the
\* next line, and the values are those of calc.y and its precedences
\* (default reductions of calc.y.c:1142, actions of calc.y.c:1236).
AnswersAtOnce ==
    pc = "backup" /\ yychar = YYEMPTY /\ ~Consistent(yystate) =>
        LET lines == LinesPrint(Len(given)) IN
            /\ Len(lines) <= Len(out) /\ lines = SubSeq(out, 1, Len(lines))
            /\ \A i \in (Len(lines) + 1)..Len(out) : out[i] = "Don't divide by zero please!"
            /\ given # << >> /\ Tok(Len(given)) = NEWLINE => out = lines

\* The parser takes a token when a line of calc.y may go on with it, and
\* complains of the first that it may not: it neither shifts past an error nor
\* rejects a correct input, whatever reductions come between
\* (calc.y.c:1142, calc.y.c:1349).
RejectsAtOnce ==
    /\ \A i \in 1..(Len(given) - 1) : Tok(i) \in MayFollow(i)
    /\ given # << >> /\ yychar = YYEMPTY => Tok(Len(given)) \in MayFollow(Len(given))
    /\ pc = "aborted" => Tok(Len(given)) \notin MayFollow(Len(given))
    /\ pc = "accepted" => Tok(Len(given)) = YYEOF

\* A division kills the calculator only in a line where the least int is
\* divided by -1, and such a line is never answered (calc.y.c:1264).
TrapsAtOverflow ==
    LET n == Len(given) IN
    /\ pc = "trapped" =>
          \E j \in LineStart(n)..(n - 1) : \E i \in LineStart(n)..j :
             \E m \in Meanings(i, j) : m.traps
    /\ \A e \in Ends : e > LineStart(e) /\ e < n =>
          \A m \in Meanings(LineStart(e), e - 1) : ~m.traps

\* The stacks hold what is open in the line, not the lines and terms before it:
\* only nesting can exhaust the memory (calc.y.c:1070, the left recursion of
\* calc.y:24 and calc.y:30).
FlatInputsFit ==
    LET n == Len(given)
        line == Line(n) \cup {n}
        opens == {i \in line :
                    \/ Tok(i) \in {LPAREN, DECREMENT}
                    \/ Tok(i) = MINUS /\ (i - 1 \notin line \/ Tok(i - 1) # NUMBER)}
    IN  n > 0 /\ opens = {} => Len(yyss) <= 7 /\ (yymaxdepth > 7 => pc # "exhausted")

\* Lines are answered, and the division that cannot be is the only one that is
\* not.
LinesAnswered == AnswersAtOnce /\ TrapsAtOverflow

\* The stacks, however they have grown.
StacksSound == TypeOK /\ FlatInputsFit

\* yyparse returns, or the calculator dies, for every input
\* (calc.y.c:1443, the chain of reductions from calc.y.c:1218).
Terminates == <>Ended
=============================================================================
